---- MODULE Spec2Model ----
(***************************************************************************)
(* discord_opencode: the session store (schema bootstrap and migration,   *)
(* lookup, register, approve), the channel resolver that sits in front of *)
(* every chat operation, and the file access guard of send_file.          *)
(*                                                                         *)
(* The sessions table is a sequence of rows in rowid order.  Every store   *)
(* operation of src/tools/discord.ts is one open-execute-close unit and is *)
(* one action here.  JavaScript values: undefined and NULL are two marker  *)
(* strings, Truthy is JavaScript truthiness of string | null | undefined.  *)
(* A call either returns or throws; a throw is a value [threw |-> TRUE].   *)
(***************************************************************************)
EXTENDS Integers, Sequences, FiniteSets, TLC

VARIABLES
    config,       \* PluginConfig of this process (fixed after loadConfig)
    dbOpenable,   \* environment: whether the database file can be opened now
    db,           \* the on-disk store: schema objects and the rows of sessions
    last,         \* the most recent call: its name, arguments and outcome
    approveHist,  \* history: per key, what approve(k) = true has witnessed
    fs,           \* the file system: per file object, what the kernel knows of it
    names,        \* the file system: the file object each path opens, if any
    call,         \* the validateFileAccess call in progress and what it observed
    races,        \* the changes other processes have made to the file system
    phase,        \* the plugin: being initialised, serving its tools, or failed
    calls,        \* store calls in flight at once, each at its await or past it
    send,         \* the send_file call in progress and what it has done so far
    cmd,          \* run_project_command: the commands handed to execSync
    msg,          \* send_discord_message: the content and the messages sent
    wait,         \* an interactive wait: the prompt, the clock and its outcome
    client,       \* the module's discordClient and the getClient calls in flight
    gate,         \* a tool behind withUserConfirmation: the call and its effects
    split         \* a splitMessageContent call: its arguments, loop and chunks

\* the session store and the resolver
svars == <<config, dbOpenable, db, last, approveHist>>
\* the file access guard
fvars == <<fs, names, call, races>>
\* the plugin entry point and the tools
tvars == <<phase, calls, send, cmd, msg, wait, client, gate, split>>

vars == <<config, dbOpenable, db, last, approveHist, fs, names, call, races,
          phase, calls, send, cmd, msg, wait, client, gate, split>>

(* ---------------- bounds ---------------- *)

\* rows the sessions table may hold
MaxRows == 2
\* changes other processes make to the file system in one behaviour
MaxRaces == 2

(* ---------------- values ---------------- *)

undefined == "<undefined>"
NULL == "<null>"

Truthy(v) == v \notin {undefined, NULL, ""}

\* correlation keys (opencode_session_id)
Keys == {"k1", "k2"}
\* thread ids an external writer binds to a key
BoundThreads == {NULL, "t1"}
\* context.sessionID as a tool call carries it
ContextKeys == {undefined} \cup Keys
\* the key getThreadIdFromSession may be handed: absent, empty or a key
LookupKeys == ContextKeys \cup {""}
\* channel_id / thread_id argument of a tool call
ExplicitIds == {undefined, "", "x1"}
\* config.defaultChannelId after loadConfig: absent or a non-empty id
DefaultChannelIds == {undefined, "c0"}
\* what create_thread_for_conversation hands to registerThreadSession: the
\* created thread (with or without an owner) and the agent type
RegisterCalls ==
    { [thread |-> [id |-> "t3", parentId |-> "c0", ownerId |-> "u1"],
       agentType |-> "ask"],
      [thread |-> [id |-> "t4", parentId |-> "c0", ownerId |-> NULL],
       agentType |-> "project"] }
\* Date.now() readings
ClockReadings == {7}

\* remote_allowed of a row whose table has no such column
NoColumn == -1

IDX_OPENCODE_SESSION_ID == "idx_sessions_opencode_session_id"
IDX_DISCORD_THREAD_ID == "idx_sessions_discord_thread_id"

(* ---------------- the store ---------------- *)

\* A store file that does not exist yet: opening it creates an empty database.
AbsentDb ==
    [hasTable |-> FALSE, hasRemoteAllowed |-> FALSE, indexes |-> {},
     wal |-> FALSE, rows |-> <<>>]

\* A store created before the remote_allowed column existed.
LegacyDb == [AbsentDb EXCEPT !.hasTable = TRUE]

\* A store created by hand with the full table and nothing else.
ManualDb == [AbsentDb EXCEPT !.hasTable = TRUE, !.hasRemoteAllowed = TRUE]

Returns(v) == [threw |-> FALSE, value |-> v]
Throws(e) == [threw |-> TRUE, error |-> e]

\* rows of d whose opencode_session_id equals key (SQL =: NULL matches nothing)
Matching(d, key) ==
    { i \in 1..Len(d.rows) : d.rows[i].opencode_session_id = key }

Min(S) == CHOOSE x \in S : \A y \in S : x <= y

(* ---------------- src/tools/discord.ts ---------------- *)

\* openSessionDb: throws when no path is configured or the open fails
openSessionDb(cfg, openable) ==
    IF ~Truthy(cfg.databasePath) THEN Throws("NoDatabasePath")
    ELSE IF ~openable THEN Throws("OpenFailed")
    ELSE Returns("db")

\* SELECT discord_thread_id, remote_allowed FROM sessions
\*   WHERE opencode_session_id = ?   with .get(): the first match or undefined
SelectSession(d, key) ==
    IF ~d.hasTable \/ ~d.hasRemoteAllowed THEN Throws("SqlError")
    ELSE IF Matching(d, key) = {} THEN Returns([found |-> FALSE])
    ELSE LET r == d.rows[Min(Matching(d, key))]
         IN  Returns([found |-> TRUE,
                     discord_thread_id |-> r.discord_thread_id,
                     remote_allowed |-> r.remote_allowed])

\* the null the lookup returns
NullSession == [isNull |-> TRUE, threadId |-> NULL, remoteAllowed |-> FALSE]

\* the record replaced by null when .get() returned no row
SessionRecordNullOnMiss(q) ==
    IF ~q.found
    THEN [isNull |-> TRUE, threadId |-> NULL, remoteAllowed |-> FALSE]
    ELSE [isNull |-> FALSE,
          threadId |-> IF Truthy(q.discord_thread_id)
                       THEN q.discord_thread_id ELSE NULL,
          remoteAllowed |-> q.remote_allowed = 1]

\* the record built from the row .get() returned (row may be undefined):
\* row?.discord_thread_id || null, row?.remote_allowed === 1
SessionRecord(q) ==
    [isNull |-> FALSE,
     threadId |-> IF q.found /\ Truthy(q.discord_thread_id)
                  THEN q.discord_thread_id ELSE NULL,
     remoteAllowed |-> q.found /\ q.remote_allowed = 1]

\* the try block of getThreadIdFromSession: open, query, build the record
LookupTry(cfg, openable, d, key) ==
    LET h == openSessionDb(cfg, openable)
    IN  IF h.threw THEN h
        ELSE LET q == SelectSession(d, key)
             IN  IF q.threw THEN q ELSE Returns(SessionRecord(q.value))

\* getThreadIdFromSession with the catch block lost: the error propagates
getThreadIdFromSessionNoCatch(cfg, openable, d, key) ==
    IF ~Truthy(key) THEN [outcome |-> Returns(NullSession), opens |-> 0]
    ELSE IF ~cfg.enableSessionStore THEN [outcome |-> Returns(NullSession), opens |-> 0]
    ELSE [outcome |-> LookupTry(cfg, openable, d, key), opens |-> 1]

\* getThreadIdFromSession: null for no key or a disabled store; any error of
\* the try block is caught, logged and turned into null.  opens counts the
\* openSessionDb calls made.
getThreadIdFromSession(cfg, openable, d, key) ==
    IF ~Truthy(key) THEN [outcome |-> Returns(NullSession), opens |-> 0]
    ELSE IF ~cfg.enableSessionStore THEN [outcome |-> Returns(NullSession), opens |-> 0]
    ELSE LET t == LookupTry(cfg, openable, d, key)
         IN  [outcome |-> IF t.threw THEN Returns(NullSession) ELSE t,
              opens |-> 1]

Resolved(id, fromSession) ==
    Returns([channelId |-> id, fromSession |-> fromSession])

\* the approval condition with the negation of remoteAllowed lost
ApprovalMissingInverted(cfg, requireRemoteApproval, session) ==
    requireRemoteApproval /\ cfg.requireRemoteApproval /\ session.remoteAllowed

\* the approval condition of the session branch
ApprovalMissing(cfg, requireRemoteApproval, session) ==
    requireRemoteApproval /\ cfg.requireRemoteApproval /\ ~session.remoteAllowed

\* an unapproved session that falls through to the default channel
UnapprovedOutcomeDefault(cfg, explicitChannelId) ==
    IF Truthy(explicitChannelId) THEN Resolved(explicitChannelId, FALSE)
    ELSE IF Truthy(cfg.defaultChannelId) THEN Resolved(cfg.defaultChannelId, FALSE)
    ELSE Throws("NotApproved")

\* an unapproved session: the explicit id if one was supplied, else the error
UnapprovedOutcome(cfg, explicitChannelId) ==
    IF Truthy(explicitChannelId)
    THEN Resolved(explicitChannelId, FALSE)
    ELSE Throws("NotApproved")

\* the session-bound result giving way to a supplied explicit id
SessionTargetPreferExplicit(explicitChannelId, threadId) ==
    IF Truthy(explicitChannelId)
    THEN Resolved(explicitChannelId, FALSE)
    ELSE Resolved(threadId, TRUE)

\* the session-bound result; a differing explicit id is only logged
SessionTarget(explicitChannelId, threadId) ==
    Resolved(threadId, TRUE)

\* the fallback testing the explicit argument against undefined only
ExplicitFallbackDefined(cfg, explicitChannelId) ==
    IF explicitChannelId # undefined THEN Resolved(explicitChannelId, FALSE)
    ELSE IF Truthy(cfg.defaultChannelId) THEN Resolved(cfg.defaultChannelId, FALSE)
    ELSE Throws("CouldNotResolve")

\* PRIORITY 2: the explicit argument, then the default channel, then the error
ExplicitFallback(cfg, explicitChannelId) ==
    IF Truthy(explicitChannelId) THEN Resolved(explicitChannelId, FALSE)
    ELSE IF Truthy(cfg.defaultChannelId) THEN Resolved(cfg.defaultChannelId, FALSE)
    ELSE Throws("CouldNotResolve")

\* the session branch reading the row once for the thread and once more for
\* the approval flag
ResolveFromSessionRecheck(cfg, openable, d, explicitChannelId, sessionID, requireRemoteApproval) ==
    LET consult == cfg.enableSessionStore /\ Truthy(sessionID)
        look == IF consult THEN getThreadIdFromSession(cfg, openable, d, sessionID)
                ELSE [outcome |-> Returns(NullSession), opens |-> 0]
        s == look.outcome
    IN  [opens |-> 2 * look.opens,
         outcome |->
            IF s.threw THEN s
            ELSE IF consult /\ Truthy(s.value.threadId)
            THEN IF ApprovalMissing(cfg, requireRemoteApproval, s.value)
                 THEN UnapprovedOutcome(cfg, explicitChannelId)
                 ELSE SessionTarget(explicitChannelId, s.value.threadId)
            ELSE ExplicitFallback(cfg, explicitChannelId)]

\* resolveChannelId below the explicit override: PRIORITY 1, the session lookup
ResolveFromSession(cfg, openable, d, explicitChannelId, sessionID, requireRemoteApproval) ==
    LET consult == cfg.enableSessionStore /\ Truthy(sessionID)
        look == IF consult THEN getThreadIdFromSession(cfg, openable, d, sessionID)
                ELSE [outcome |-> Returns(NullSession), opens |-> 0]
        s == look.outcome
    IN  [opens |-> look.opens,
         outcome |->
            IF s.threw THEN s
            ELSE IF consult /\ Truthy(s.value.threadId)
            THEN IF ApprovalMissing(cfg, requireRemoteApproval, s.value)
                 THEN UnapprovedOutcome(cfg, explicitChannelId)
                 ELSE SessionTarget(explicitChannelId, s.value.threadId)
            ELSE ExplicitFallback(cfg, explicitChannelId)]

\* resolveChannelId with the explicit override lost
resolveChannelIdNoOverride(cfg, openable, d, explicitChannelId, sessionID, requireRemoteApproval, preferExplicit) ==
    ResolveFromSession(cfg, openable, d, explicitChannelId, sessionID,
                       requireRemoteApproval)

\* resolveChannelId: [outcome, opens]
resolveChannelId(cfg, openable, d, explicitChannelId, sessionID, requireRemoteApproval, preferExplicit) ==
    IF preferExplicit /\ Truthy(explicitChannelId)
    THEN [outcome |-> Resolved(explicitChannelId, FALSE), opens |-> 0]
    ELSE ResolveFromSession(cfg, openable, d, explicitChannelId, sessionID,
                            requireRemoteApproval)

\* the UPDATE matching on the primary key instead of the correlation key
UpdateRemoteAllowedById(d, key) ==
    IF ~d.hasTable \/ ~d.hasRemoteAllowed THEN Throws("SqlError")
    ELSE Returns([d EXCEPT !.rows =
            [i \in 1..Len(d.rows) |->
                IF d.rows[i].id = key
                THEN [d.rows[i] EXCEPT !.remote_allowed = 1]
                ELSE d.rows[i]]])

\* the UPDATE with its WHERE clause lost
UpdateRemoteAllowedNoWhere(d, key) ==
    IF ~d.hasTable \/ ~d.hasRemoteAllowed THEN Throws("SqlError")
    ELSE Returns([d EXCEPT !.rows =
            [i \in 1..Len(d.rows) |-> [d.rows[i] EXCEPT !.remote_allowed = 1]]])

\* UPDATE sessions SET remote_allowed = 1 WHERE opencode_session_id = ?
UpdateRemoteAllowed(d, key) ==
    IF ~d.hasTable \/ ~d.hasRemoteAllowed THEN Throws("SqlError")
    ELSE Returns([d EXCEPT !.rows =
            [i \in 1..Len(d.rows) |->
                IF d.rows[i].opencode_session_id = key
                THEN [d.rows[i] EXCEPT !.remote_allowed = 1]
                ELSE d.rows[i]]])

\* approveRemoteSession reporting whether the UPDATE changed a row
approveRemoteSessionChanges(cfg, openable, d, key) ==
    IF ~cfg.enableSessionStore THEN [result |-> FALSE, db |-> d]
    ELSE LET h == openSessionDb(cfg, openable)
         IN  IF h.threw THEN [result |-> FALSE, db |-> d]
             ELSE LET u == UpdateRemoteAllowed(d, key)
                  IN  IF u.threw THEN [result |-> FALSE, db |-> d]
                      ELSE [result |-> Matching(d, key) # {}, db |-> u.value]

\* approveRemoteSession: [result, db after the call]
approveRemoteSession(cfg, openable, d, key) ==
    IF ~cfg.enableSessionStore THEN [result |-> FALSE, db |-> d]
    ELSE LET h == openSessionDb(cfg, openable)
         IN  IF h.threw THEN [result |-> FALSE, db |-> d]
             ELSE LET u == UpdateRemoteAllowed(d, key)
                  IN  IF u.threw THEN [result |-> FALSE, db |-> d]
                      ELSE [result |-> TRUE, db |-> u.value]

\* randomUUID(): an id no row of d has
FreshId(d) == ToString(Len(d.rows) + 1)

\* randomUUID() as registerThreadSession draws it: a new id or, should the
\* generator ever repeat itself, the id of the first row
SessionIds(d) == {FreshId(d), "1"}

\* the inserted row taking the owner as it is, without the 'unknown' default
NewSessionRowOwnerRaw(sessionId, thread, agentType, now) ==
    [id |-> sessionId,
     discord_thread_id |-> thread.id,
     discord_channel_id |-> thread.parentId,
     user_id |-> thread.ownerId,
     state |-> "idle",
     agent_type |-> agentType,
     created_at |-> now,
     updated_at |-> now,
     opencode_session_id |-> NULL,
     remote_allowed |-> 0]

\* the row carrying a correlation key: the ninth value bound to a key
NewSessionRowKeyed(sessionId, thread, agentType, now) ==
    [id |-> sessionId,
     discord_thread_id |-> thread.id,
     discord_channel_id |-> thread.parentId,
     user_id |-> IF Truthy(thread.ownerId) THEN thread.ownerId ELSE "unknown",
     state |-> "idle",
     agent_type |-> agentType,
     created_at |-> now,
     updated_at |-> now,
     opencode_session_id |-> "k1",
     remote_allowed |-> 0]

\* the row registerThreadSession inserts
NewSessionRow(sessionId, thread, agentType, now) ==
    [id |-> sessionId,
     discord_thread_id |-> thread.id,
     discord_channel_id |-> thread.parentId,
     user_id |-> IF Truthy(thread.ownerId) THEN thread.ownerId ELSE "unknown",
     state |-> "idle",
     agent_type |-> agentType,
     created_at |-> now,
     updated_at |-> now,
     opencode_session_id |-> NULL,
     remote_allowed |-> 0]

\* INSERT INTO sessions (..., remote_allowed) VALUES (...)
InsertSession(d, row) ==
    IF ~d.hasTable \/ ~d.hasRemoteAllowed THEN Throws("SqlError")
    ELSE IF \E i \in 1..Len(d.rows) : d.rows[i].id = row.id
    THEN Throws("PrimaryKey")
    ELSE Returns([d EXCEPT !.rows = Append(d.rows, row)])

\* registerThreadSession with the catch block lost: the error propagates
registerThreadSessionNoCatch(cfg, openable, d, sessionId, thread, agentType, now) ==
    IF ~cfg.enableSessionStore THEN [threw |-> FALSE, result |-> NULL, db |-> d]
    ELSE LET h == openSessionDb(cfg, openable)
         IN  IF h.threw THEN [threw |-> TRUE, result |-> NULL, db |-> d]
             ELSE LET ins == InsertSession(d, NewSessionRow(sessionId, thread, agentType, now))
                  IN  IF ins.threw THEN [threw |-> TRUE, result |-> NULL, db |-> d]
                      ELSE [threw |-> FALSE, result |-> sessionId, db |-> ins.value]

\* registerThreadSession: [threw, result (the session id or NULL), db after
\* the call]; every error of the try block is caught, logged and turned
\* into NULL
registerThreadSession(cfg, openable, d, sessionId, thread, agentType, now) ==
    IF ~cfg.enableSessionStore THEN [threw |-> FALSE, result |-> NULL, db |-> d]
    ELSE LET h == openSessionDb(cfg, openable)
         IN  IF h.threw THEN [threw |-> FALSE, result |-> NULL, db |-> d]
             ELSE LET ins == InsertSession(d, NewSessionRow(sessionId, thread, agentType, now))
                  IN  IF ins.threw THEN [threw |-> FALSE, result |-> NULL, db |-> d]
                      ELSE [threw |-> FALSE, result |-> sessionId, db |-> ins.value]

(* ---------------- src/tools/threads.ts ---------------- *)

\* what create_thread_for_conversation returns for the thread it created
ThreadCreatedReply(thread, sessionId) ==
    [thread_created |-> TRUE,
     thread_id |-> thread.id,
     session_id |-> sessionId,
     session_registered |-> sessionId # NULL]

\* the tool call rejected with the error that reached it
ToolRejected == [rejected |-> TRUE]

(* ---------------- src/schema.ts ---------------- *)

\* openDatabase: throws the fatal open error
openDatabase(openable) ==
    IF ~openable THEN Throws("OpenFailed") ELSE Returns("db")

\* bootstrapSchema creating the table afresh (CREATE TABLE after a DROP)
bootstrapSchemaRecreate(openable, d) ==
    LET h == openDatabase(openable)
    IN  IF h.threw THEN [threw |-> TRUE, error |-> h.error, db |-> d]
        ELSE [threw |-> FALSE, error |-> NULL,
              db |-> [d EXCEPT
                  !.wal = TRUE,
                  !.hasRemoteAllowed = TRUE,
                  !.hasTable = TRUE,
                  !.rows = <<>>,
                  !.indexes = {IDX_OPENCODE_SESSION_ID, IDX_DISCORD_THREAD_ID}]]

\* bootstrapSchema with IF NOT EXISTS lost: CREATE TABLE fails on a table
\* that is there
bootstrapSchemaNoIfNotExists(openable, d) ==
    LET h == openDatabase(openable)
    IN  IF h.threw THEN [threw |-> TRUE, error |-> h.error, db |-> d]
        ELSE IF d.hasTable
        THEN [threw |-> TRUE, error |-> "NotWritable",
              db |-> [d EXCEPT !.wal = TRUE]]
        ELSE [threw |-> FALSE, error |-> NULL,
              db |-> [d EXCEPT
                  !.wal = TRUE,
                  !.hasRemoteAllowed = TRUE,
                  !.hasTable = TRUE,
                  !.indexes = {IDX_OPENCODE_SESSION_ID, IDX_DISCORD_THREAD_ID}]]

\* bootstrapSchema: WAL, CREATE TABLE IF NOT EXISTS, both CREATE INDEX IF NOT EXISTS
bootstrapSchema(openable, d) ==
    LET h == openDatabase(openable)
    IN  IF h.threw THEN [threw |-> TRUE, error |-> h.error, db |-> d]
        ELSE [threw |-> FALSE, error |-> NULL,
              db |-> [d EXCEPT
                  !.wal = TRUE,
                  !.hasRemoteAllowed = IF d.hasTable THEN d.hasRemoteAllowed ELSE TRUE,
                  !.hasTable = TRUE,
                  !.indexes = d.indexes \cup {IDX_OPENCODE_SESSION_ID, IDX_DISCORD_THREAD_ID}]]

\* ALTER TABLE sessions ADD COLUMN remote_allowed INTEGER NOT NULL DEFAULT
\* dflt: every row that lacks the column reads the default
AddRemoteAllowed(d, dflt) ==
    [d EXCEPT !.hasRemoteAllowed = TRUE,
              !.rows = [i \in 1..Len(d.rows) |->
                          IF d.rows[i].remote_allowed = NoColumn
                          THEN [d.rows[i] EXCEPT !.remote_allowed = dflt]
                          ELSE d.rows[i]]]

\* migrateSchema adding the column with DEFAULT 1
migrateSchemaDefaultOne(openable, d) ==
    LET h == openDatabase(openable)
    IN  IF h.threw THEN [threw |-> TRUE, error |-> h.error, db |-> d]
        ELSE IF d.hasTable /\ d.hasRemoteAllowed
        THEN [threw |-> FALSE, error |-> NULL, db |-> d]
        ELSE IF ~d.hasTable
        THEN [threw |-> TRUE, error |-> "NotWritable", db |-> d]
        ELSE [threw |-> FALSE, error |-> NULL, db |-> AddRemoteAllowed(d, 1)]

\* migrateSchema without the table_info test: ALTER TABLE ADD COLUMN on every
\* run, which fails on a column that is there
migrateSchemaUnconditional(openable, d) ==
    LET h == openDatabase(openable)
    IN  IF h.threw THEN [threw |-> TRUE, error |-> h.error, db |-> d]
        ELSE IF ~d.hasTable \/ d.hasRemoteAllowed
        THEN [threw |-> TRUE, error |-> "NotWritable", db |-> d]
        ELSE [threw |-> FALSE, error |-> NULL, db |-> AddRemoteAllowed(d, 0)]

\* migrateSchema: ALTER TABLE ADD COLUMN remote_allowed when table_info lacks it
migrateSchema(openable, d) ==
    LET h == openDatabase(openable)
    IN  IF h.threw THEN [threw |-> TRUE, error |-> h.error, db |-> d]
        ELSE IF d.hasTable /\ d.hasRemoteAllowed
        THEN [threw |-> FALSE, error |-> NULL, db |-> d]
        ELSE IF ~d.hasTable
        THEN [threw |-> TRUE, error |-> "NotWritable", db |-> d]
        ELSE [threw |-> FALSE, error |-> NULL, db |-> AddRemoteAllowed(d, 0)]

\* ensureSchema without the migration: bootstrapSchema alone
ensureSchemaBootstrapOnly(openable, d) ==
    bootstrapSchema(openable, d)

\* ensureSchema: bootstrapSchema then migrateSchema
ensureSchema(openable, d) ==
    LET b == bootstrapSchema(openable, d)
    IN  IF b.threw THEN b ELSE migrateSchema(openable, b.db)

(* ---------------- src/file-sandbox.ts ---------------- *)

\* A path is a sequence of characters; a whole name stands for its letters.
\* The allowed directory, a file in it, a symbolic link in it, a name in it
\* that nothing answers to, a sibling directory whose name starts with the
\* allowed directory's, a directory outside, and the default directories.
TmpDir == <<"/", "tmp">>
TmpFile == <<"/", "tmp", "/", "a">>
TmpLink == <<"/", "tmp", "/", "l">>
TmpGone == <<"/", "tmp", "/", "g">>
SiblingFile == <<"/", "tmp", "foo", "/", "a">>
OutsideFile == <<"/", "etc", "/", "a">>
ProjectsDir == <<"/", "home", "/", "projects">>

\* what the kernel appends to the path of an opened file that was removed
DeletedMark == " (deleted)"

\* file_path as a tool call passes it
SuppliedPaths == {TmpFile, TmpLink, TmpGone}

\* allowedPrefixes as the configuration passes them
PrefixLists ==
    { <<>>,
      <<TmpDir>>,
      <<TmpDir \o <<"/">> >>,
      <<ProjectsDir, TmpDir \o <<"/", "/">> >>,
      <<TmpFile>> }

\* maxBytes of the calls, and the sizes files have around it
MaxBytes == 2
FileSizes == {1, MaxBytes, MaxBytes + 1}

\* the file objects: the one under test and a file outside the sandbox
Inodes == {"i1", "i2"}
NoFile == "none"

\* a file of the allowed directory whose own name ends in the kernel's mark
TmpMarked == TmpFile \o <<DeletedMark>>

\* where file objects are found: the canonical path of the opened entry
Locations == {TmpFile, TmpDir, SiblingFile, OutsideFile, TmpMarked}

\* the file outside the sandbox, which the symbolic link /tmp/l points to
OutsideInode ==
    [isFile |-> TRUE, nlink |-> 1, size |-> 1, path |-> OutsideFile,
     deleted |-> FALSE]

\* prefix.replace(/\/+$/, '')
RECURSIVE StripTrailingSlashes(_)
StripTrailingSlashes(prefix) ==
    IF prefix # <<>> /\ prefix[Len(prefix)] = "/"
    THEN StripTrailingSlashes(SubSeq(prefix, 1, Len(prefix) - 1))
    ELSE prefix

\* String.prototype.startsWith
startsWith(str, head) ==
    /\ Len(str) >= Len(head)
    /\ SubSeq(str, 1, Len(head)) = head

\* isPathAllowed comparing the path with the prefix alone, without the '/'
isPathAllowedBarePrefix(realPath, allowedPrefixes) ==
    \E i \in 1..Len(allowedPrefixes) :
        LET prefix == StripTrailingSlashes(allowedPrefixes[i])
        IN  realPath = prefix \/ startsWith(realPath, prefix)

\* isPathAllowed: equal to a normalized prefix or below it
isPathAllowed(realPath, allowedPrefixes) ==
    \E i \in 1..Len(allowedPrefixes) :
        LET prefix == StripTrailingSlashes(allowedPrefixes[i])
        IN  realPath = prefix \/ startsWith(realPath, prefix \o <<"/">>)

\* validateRealPath: realPath.includes(' (deleted)')
validateRealPath(realPath) ==
    IF \E i \in 1..Len(realPath) : realPath[i] = DeletedMark
    THEN "FileWasDeleted" ELSE NULL

\* validateFileStats rejecting a file of exactly maxBytes
validateFileStatsStrict(stats, maxBytes) ==
    IF ~stats.isFile THEN "NotARegularFile"
    ELSE IF stats.nlink > 1 THEN "MultipleHardlinks"
    ELSE IF stats.size >= maxBytes THEN "ExceedsLimit"
    ELSE NULL

\* validateFileStats: regular file, then link count, then size
validateFileStats(stats, maxBytes) ==
    IF ~stats.isFile THEN "NotARegularFile"
    ELSE IF stats.nlink > 1 THEN "MultipleHardlinks"
    ELSE IF stats.size > maxBytes THEN "ExceedsLimit"
    ELSE NULL

\* openSync(resolvedPath, 'r'): the file object the path leads to now
openSync(nm, filePath) ==
    IF nm[filePath] = NoFile THEN Throws("ENOENT") ELSE Returns(nm[filePath])

\* realpathSync('/proc/self/fd/N'): the outcomes for the opened file object.
\* The kernel reports the entry's present path, marked once the entry is
\* removed; resolving a marked path succeeds only if a file of that very name
\* exists, which other processes decide.
realpathOfFd(f, fd) ==
    IF f[fd].deleted
    THEN {Throws("ENOENT"), Returns(f[fd].path \o <<DeletedMark>>)}
    ELSE {Returns(f[fd].path)}

\* fstatSync(fd)
fstatSync(f, fd) ==
    [isFile |-> f[fd].isFile, nlink |-> f[fd].nlink, size |-> f[fd].size]

\* the prefixes in force: the given list or, for an absent or empty list,
\* the canonical default directories, which may fail to resolve
resolvedPrefixes(allowedPrefixes, defaultsResolve) ==
    IF Len(allowedPrefixes) # 0 THEN Returns(allowedPrefixes)
    ELSE IF ~defaultsResolve THEN Throws("ServerConfiguration")
    ELSE Returns(<<ProjectsDir, TmpDir>>)

\* no stat was taken, no content was read
NoStats == [isFile |-> FALSE, nlink |-> 0, size |-> 0]
NoBuffer == [inode |-> NoFile, bytes |-> 0]

\* { error }
Rejected(e) == [error |-> e, buffer |-> NoBuffer, realPath |-> <<>>]
\* { error: null, buffer, realPath }
Accepted(buffer, realPath) ==
    [error |-> NULL, buffer |-> buffer, realPath |-> realPath]

\* no validateFileAccess call is in progress
IdleCall ==
    [pc |-> "idle", filePath |-> <<>>, allowedPrefixes |-> <<>>,
     fd |-> NoFile, fdOpen |-> FALSE, opens |-> 0, closes |-> 0,
     canonical |-> "none", realPath |-> <<>>,
     liveAtOpen |-> FALSE, removed |-> FALSE,
     statted |-> FALSE, stats |-> NoStats,
     reads |-> 0, seen |-> {}, result |-> Rejected(NULL)]

\* the return that leaves the descriptor open when the call ends in an error
ReturnFromTryLeak(c, result) ==
    [c EXCEPT !.pc = "done", !.result = result,
              !.fdOpen = IF result.error # NULL THEN @ ELSE FALSE,
              !.closes = IF c.fdOpen /\ result.error = NULL THEN @ + 1 ELSE @]

\* a return from inside the try block: the finally block closes the
\* descriptor, then the caller has the result
ReturnFromTry(c, result) ==
    [c EXCEPT !.pc = "done", !.result = result,
              !.fdOpen = FALSE,
              !.closes = IF c.fdOpen THEN @ + 1 ELSE @]

\* resolve, openSync: the error return, or the descriptor
OpenStep(c, nm, filePath, allowedPrefixes) ==
    LET o == openSync(nm, filePath)
        started == [c EXCEPT !.filePath = filePath,
                             !.allowedPrefixes = allowedPrefixes]
    IN  IF o.threw
        THEN [started EXCEPT !.pc = "done", !.result = Rejected("CannotOpen")]
        ELSE [started EXCEPT !.pc = "opened", !.fd = o.value,
                             !.fdOpen = TRUE, !.opens = 1]

\* realpathSync of the descriptor (outcome canon), validateRealPath, the
\* prefixes in force, isPathAllowed
PathStep(c, f, canon) ==
    LET saw == [c EXCEPT !.seen = @ \cup {c.fd},
                         !.removed = f.files[c.fd].deleted,
                         !.canonical = IF canon.threw THEN "threw" ELSE "path",
                         !.realPath = IF canon.threw THEN <<>> ELSE canon.value]
    IN  IF canon.threw THEN ReturnFromTry(saw, Rejected("CannotResolve"))
        ELSE IF validateRealPath(canon.value) # NULL
        THEN ReturnFromTry(saw, Rejected(validateRealPath(canon.value)))
        ELSE LET pre == resolvedPrefixes(c.allowedPrefixes, f.projectsDir)
             IN  IF pre.threw
                 THEN ReturnFromTry(saw, Rejected("ServerConfiguration"))
                 ELSE IF ~isPathAllowed(canon.value, pre.value)
                 THEN ReturnFromTry(saw, Rejected("NotInAllowedDirectory"))
                 ELSE [saw EXCEPT !.pc = "pathChecked"]

\* the stat checks made after the content was read
StatsStepReadFirst(c, f, maxBytes) ==
    LET stats == fstatSync(f.files, c.fd)
        saw == [c EXCEPT !.seen = @ \cup {c.fd}, !.statted = TRUE,
                         !.stats = stats, !.reads = @ + 1]
        statsError == validateFileStats(stats, maxBytes)
    IN  IF statsError # NULL THEN ReturnFromTry(saw, Rejected(statsError))
        ELSE [saw EXCEPT !.pc = "statsChecked"]

\* fstatSync(fd), validateFileStats
StatsStep(c, f, maxBytes) ==
    LET stats == fstatSync(f.files, c.fd)
        saw == [c EXCEPT !.seen = @ \cup {c.fd}, !.statted = TRUE,
                         !.stats = stats]
        statsError == validateFileStats(stats, maxBytes)
    IN  IF statsError # NULL THEN ReturnFromTry(saw, Rejected(statsError))
        ELSE [saw EXCEPT !.pc = "statsChecked"]

\* the content read from the path once more instead of the descriptor
ReadSourceByPath(c, nm) ==
    IF nm[c.filePath] = NoFile THEN c.fd ELSE nm[c.filePath]

\* readFileSync(fd): the file object whose content is read
ReadSource(c, nm) == c.fd

\* readFileSync, the successful return
ReadStep(c, f, nm) ==
    LET src == ReadSource(c, nm)
        buffer == [inode |-> src, bytes |-> f.files[src].size]
    IN  ReturnFromTry([c EXCEPT !.reads = @ + 1],
                      Accepted(buffer, c.realPath))

\* what the paths lead to at first: the file under test, the symbolic link
\* to the file outside, nothing
InitialNames ==
    [n \in SuppliedPaths |->
        IF n = TmpFile THEN "i1" ELSE IF n = TmpLink THEN "i2" ELSE NoFile]

\* the file access guard is not touched by the store operations
\* a part of the plugin that a specification leaves out stays unused
Unused == "unused"

\* every part of the plugin outside keep is left out
ToolsQuiet(keep) ==
    /\ IF "phase" \in keep THEN TRUE ELSE phase = Unused
    /\ IF "calls" \in keep THEN TRUE ELSE calls = Unused
    /\ IF "send" \in keep THEN TRUE ELSE send = Unused
    /\ IF "cmd" \in keep THEN TRUE ELSE cmd = Unused
    /\ IF "msg" \in keep THEN TRUE ELSE msg = Unused
    /\ IF "wait" \in keep THEN TRUE ELSE wait = Unused
    /\ IF "client" \in keep THEN TRUE ELSE client = Unused
    /\ IF "gate" \in keep THEN TRUE ELSE gate = Unused
    /\ IF "split" \in keep THEN TRUE ELSE split = Unused

FileQuiet ==
    /\ fs = [files |-> [i \in Inodes |-> OutsideInode], projectsDir |-> TRUE]
    /\ names = InitialNames
    /\ call = IdleCall
    /\ races = 0

(* ---------------- state machine: store and resolver ---------------- *)

Configs ==
    [databasePath : {"sessions.db"},
     enableSessionStore : BOOLEAN,
     requireRemoteApproval : BOOLEAN,
     defaultChannelId : DefaultChannelIds]

NoCall == [op |-> "none"]

Init ==
    /\ config \in Configs
    /\ dbOpenable = TRUE
    /\ db \in {AbsentDb, LegacyDb, ManualDb}
    /\ last = NoCall
    /\ approveHist = [k \in Keys |-> "never"]
    /\ FileQuiet
    /\ ToolsQuiet({})

\* a row with key k and a thread id exists in d
HasBoundRow(d, k) ==
    \E i \in 1..Len(d.rows) :
        /\ d.rows[i].opencode_session_id = k
        /\ Truthy(d.rows[i].discord_thread_id)

\* Calls do not overlap: a call starts when the previous one has returned.
Idle == last = NoCall

\* the environment: the store file becomes unopenable, or openable again
StoreAvailability ==
    /\ Idle
    /\ dbOpenable' = ~dbOpenable
    /\ UNCHANGED <<config, db, last, approveHist>>
    /\ UNCHANGED <<fvars, tvars>>

\* the chat bot that owns the store binds a correlation key to a thread
ExternalInsertSession ==
    /\ Idle
    /\ db.hasTable
    /\ Len(db.rows) < MaxRows
    /\ \E k \in Keys, t \in BoundThreads :
        db' = [db EXCEPT !.rows = Append(db.rows,
                 [id |-> FreshId(db),
                  discord_thread_id |-> t,
                  discord_channel_id |-> "c0",
                  user_id |-> "u1",
                  state |-> "idle",
                  agent_type |-> "ask",
                  created_at |-> 0,
                  updated_at |-> 0,
                  opencode_session_id |-> k,
                  remote_allowed |-> IF db.hasRemoteAllowed
                                     THEN 0 ELSE NoColumn])]
    /\ UNCHANGED <<config, dbOpenable, last, approveHist>>
    /\ UNCHANGED <<fvars, tvars>>

Bootstrap ==
    /\ Idle
    /\ LET r == bootstrapSchema(dbOpenable, db)
       IN  /\ db' = r.db
           /\ last' = [op |-> "bootstrap", threw |-> r.threw,
                       changed |-> r.db # db]
    /\ UNCHANGED <<config, dbOpenable, approveHist>>
    /\ UNCHANGED <<fvars, tvars>>

Migrate ==
    /\ Idle
    /\ LET r == migrateSchema(dbOpenable, db)
       IN  /\ db' = r.db
           /\ last' = [op |-> "migrate", threw |-> r.threw,
                       changed |-> r.db # db]
    /\ UNCHANGED <<config, dbOpenable, approveHist>>
    /\ UNCHANGED <<fvars, tvars>>

EnsureSchema ==
    /\ Idle
    /\ LET r == ensureSchema(dbOpenable, db)
       IN  /\ db' = r.db
           /\ last' = [op |-> "ensureSchema", threw |-> r.threw,
                       changed |-> r.db # db]
    /\ UNCHANGED <<config, dbOpenable, approveHist>>
    /\ UNCHANGED <<fvars, tvars>>

Lookup ==
    /\ Idle
    /\ \E k \in LookupKeys :
        last' = [op |-> "lookup", key |-> k,
                 outcome |-> getThreadIdFromSession(config, dbOpenable, db, k).outcome]
    /\ UNCHANGED <<config, dbOpenable, db, approveHist>>
    /\ UNCHANGED <<fvars, tvars>>

Resolve ==
    /\ Idle
    /\ \E e \in ExplicitIds, k \in ContextKeys, req \in BOOLEAN, pref \in BOOLEAN :
        LET r == resolveChannelId(config, dbOpenable, db, e, k, req, pref)
        IN  last' = [op |-> "resolve", explicit |-> e, key |-> k,
                     requireRemoteApproval |-> req, preferExplicit |-> pref,
                     opens |-> r.opens, outcome |-> r.outcome]
    /\ UNCHANGED <<config, dbOpenable, db, approveHist>>
    /\ UNCHANGED <<fvars, tvars>>

Approve ==
    /\ Idle
    /\ \E k \in Keys :
        LET r == approveRemoteSession(config, dbOpenable, db, k)
        IN  /\ db' = r.db
            /\ last' = [op |-> "approve", key |-> k, result |-> r.result]
            /\ approveHist' =
                 IF ~r.result THEN approveHist
                 ELSE IF HasBoundRow(db, k) THEN [approveHist EXCEPT ![k] = "bound"]
                 ELSE IF approveHist[k] = "never" THEN [approveHist EXCEPT ![k] = "unbound"]
                 ELSE approveHist
    /\ UNCHANGED <<config, dbOpenable>>
    /\ UNCHANGED <<fvars, tvars>>

Register ==
    /\ Idle
    /\ Len(db.rows) < MaxRows
    /\ \E c \in RegisterCalls, now \in ClockReadings, sid \in SessionIds(db) :
        LET r == registerThreadSession(config, dbOpenable, db, sid,
                                       c.thread, c.agentType, now)
        IN  /\ db' = r.db
            /\ last' = [op |-> "register", thread |-> c.thread,
                        agentType |-> c.agentType, sessionId |-> sid,
                        threw |-> r.threw,
                        result |-> r.result,
                        reply |-> IF r.threw THEN ToolRejected
                                  ELSE ThreadCreatedReply(c.thread, r.result)]
    /\ UNCHANGED <<config, dbOpenable, approveHist>>
    /\ UNCHANGED <<fvars, tvars>>

\* the call's outcome has been handed to the caller
Return ==
    /\ ~Idle
    /\ last' = NoCall
    /\ UNCHANGED <<config, dbOpenable, db, approveHist>>
    /\ UNCHANGED <<fvars, tvars>>

Next ==
    \/ StoreAvailability
    \/ ExternalInsertSession
    \/ Bootstrap
    \/ Migrate
    \/ EnsureSchema
    \/ Lookup
    \/ Resolve
    \/ Approve
    \/ Register
    \/ Return

Spec == Init /\ [][Next]_vars

(* ---------------- state machine: plugin start, then the tools ---------------- *)

\* the store as the plugin may find it when the process starts
PluginStart ==
    /\ config \in Configs
    /\ dbOpenable \in BOOLEAN
    /\ db \in {AbsentDb, LegacyDb, ManualDb}
    /\ last = NoCall
    /\ approveHist = [k \in Keys |-> "never"]
    /\ FileQuiet
    /\ ToolsQuiet({"phase"})
    /\ phase = "init"

\* the entry point without the ensureSchema call: the tools are built at once
PluginInitNoSchema ==
    /\ phase = "init"
    /\ phase' = "ready"
    /\ UNCHANGED <<svars, fvars, calls, send, cmd, msg, wait, client, gate, split>>

\* the entry point: loadConfig, ensureSchema when the session store is
\* enabled and has a path, then buildTools; an error of ensureSchema leaves
\* the entry point before any tool is built
PluginInit ==
    /\ phase = "init"
    /\ IF config.enableSessionStore /\ Truthy(config.databasePath)
       THEN LET r == ensureSchema(dbOpenable, db)
            IN  /\ db' = r.db
                /\ phase' = IF r.threw THEN "failed" ELSE "ready"
       ELSE /\ db' = db
            /\ phase' = "ready"
    /\ UNCHANGED <<config, dbOpenable, last, approveHist>>
    /\ UNCHANGED <<fvars, calls, send, cmd, msg, wait, client, gate, split>>

\* the host calls a tool it was handed, and the tool calls the store
ToolCall ==
    /\ phase = "ready"
    /\ (Lookup \/ Resolve \/ Approve \/ Register)

PluginNext ==
    \/ PluginInit
    \/ StoreAvailability
    \/ ToolCall
    \/ Return

PluginSpec == PluginStart /\ [][PluginNext]_vars

(* ---------------- state machine: store calls in flight at once ---------------- *)

\* tool calls of one process that are in flight at the same time
MaxProcs == 2
Procs == 1..MaxProcs

\* a store the entry point has prepared, empty or holding a row that the
\* chat bot bound to key k1
ServedDb == ensureSchema(TRUE, AbsentDb).db
BoundDb ==
    [ServedDb EXCEPT !.rows =
        <<[id |-> "1", discord_thread_id |-> "t1", discord_channel_id |-> "c0",
           user_id |-> "u1", state |-> "idle", agent_type |-> "ask",
           created_at |-> 0, updated_at |-> 0,
           opencode_session_id |-> "k1", remote_allowed |-> 0]>>]

\* the calls a tool may make: register a thread, approve a key, resolve
ConcCalls ==
    [op : {"register"}, c : RegisterCalls]
       \cup [op : {"approve"}, key : Keys]
       \cup [op : {"resolve"}, explicit : {undefined, "x1"}, key : Keys,
              requireRemoteApproval : {TRUE}]

\* a call not yet made.  A call made records the call c, and when done its
\* outcome, the outcome the whole call has on the store written by the
\* calls before it one after the other (atPoint), and whether another call
\* wrote between its open and its statement (overlapped).
NewProc == [pc |-> "new"]

\* whether the call reaches `await openSessionDb(config)`
ReachesStore(cfg, c) ==
    IF c.op = "resolve"
    THEN resolveChannelId(cfg, TRUE, ServedDb, c.explicit, c.key,
                          c.requireRemoteApproval, FALSE).opens > 0
    ELSE cfg.enableSessionStore

\* the whole call c on store d through a handle whose opening went as opened
CallOn(cfg, opened, d, c) ==
    IF c.op = "register"
    THEN LET r == registerThreadSession(cfg, opened, d, FreshId(d),
                                        c.c.thread, c.c.agentType, 7)
         IN  [db |-> r.db, outcome |-> Returns(r.result)]
    ELSE IF c.op = "approve"
    THEN LET r == approveRemoteSession(cfg, opened, d, c.key)
         IN  [db |-> r.db, outcome |-> Returns(r.result)]
    ELSE [db |-> d,
          outcome |-> resolveChannelId(cfg, opened, d, c.explicit, c.key,
                                       c.requireRemoteApproval, FALSE).outcome]

\* the statement acting on the store as it was when the handle was opened,
\* and writing that store back
StatementTargetSnapshot(q, d) == q.snap

\* the store the call's one statement acts on: the store as it is now
StatementTarget(q, d) == d

ConcInit ==
    /\ config \in {c \in Configs : c.defaultChannelId = undefined}
    /\ dbOpenable = TRUE
    /\ db \in {ServedDb, BoundDb}
    /\ last = NoCall
    /\ approveHist = [k \in Keys |-> "never"]
    /\ FileQuiet
    /\ ToolsQuiet({"calls"})
    /\ calls = [proc |-> [p \in Procs |-> NewProc], seq |-> db]

\* registers not yet done: each adds a row
PendingRegisters ==
    Cardinality({p \in Procs : /\ calls.proc[p].pc \in {"importing", "opened"}
                               /\ calls.proc[p].c.op = "register"})

\* a call starts and runs to its first await, `await import('bun:sqlite')`
\* inside openSessionDb, or returns without reaching the store
ConcStart(p) ==
    /\ calls.proc[p].pc = "new"
    /\ \E c \in ConcCalls :
          /\ c.op = "register" => Len(db.rows) + PendingRegisters < MaxRows
          /\ calls' = [calls EXCEPT !.proc[p] =
                IF ReachesStore(config, c)
                THEN [pc |-> "importing", c |-> c]
                ELSE [pc |-> "done", c |-> c, overlapped |-> FALSE,
                      outcome |-> CallOn(config, TRUE, db, c).outcome,
                      atPoint |-> CallOn(config, TRUE, calls.seq, c).outcome]]
    /\ UNCHANGED <<svars, fvars, phase, send, cmd, msg, wait, client, gate, split>>

\* the import has resolved: new Database(path) succeeds or throws, and the
\* caller's continuation is queued behind its await
ConcOpen(p) ==
    /\ calls.proc[p].pc = "importing"
    /\ calls' = [calls EXCEPT !.proc[p] =
          [pc |-> "opened", c |-> calls.proc[p].c,
           opened |-> dbOpenable, snap |-> db]]
    /\ UNCHANGED <<svars, fvars, phase, send, cmd, msg, wait, client, gate, split>>

\* the continuation runs without a further await: the one statement, close,
\* catch, and the rest of the caller
ConcStatement(p) ==
    /\ calls.proc[p].pc = "opened"
    /\ LET q == calls.proc[p]
           r == CallOn(config, q.opened, StatementTarget(q, db), q.c)
           atPoint == CallOn(config, q.opened, calls.seq, q.c)
       IN  /\ db' = r.db
           /\ calls' = [proc |-> [calls.proc EXCEPT ![p] =
                                    [pc |-> "done", c |-> q.c,
                                     overlapped |-> q.snap # db,
                                     outcome |-> r.outcome,
                                     atPoint |-> atPoint.outcome]],
                        seq |-> atPoint.db]
    /\ UNCHANGED <<config, dbOpenable, last, approveHist>>
    /\ UNCHANGED <<fvars, phase, send, cmd, msg, wait, client, gate, split>>

\* the environment: the store file becomes unopenable, or openable again
ConcAvailability ==
    /\ dbOpenable' = ~dbOpenable
    /\ UNCHANGED <<config, db, last, approveHist>>
    /\ UNCHANGED <<fvars, tvars>>

ConcNext ==
    \/ \E p \in Procs : ConcStart(p)
    \/ \E p \in Procs : ConcOpen(p)
    \/ \E p \in Procs : ConcStatement(p)
    \/ ConcAvailability

ConcSpec == ConcInit /\ [][ConcNext]_vars

(* ---------------- state machine: the file access guard ---------------- *)

\* the file under test as a call may find it: a regular file or a directory
\* entry, with one or two links, below, at or above the size limit
InitialFiles ==
    [isFile : BOOLEAN, nlink : {1, 2}, size : FileSizes, path : {TmpFile},
     deleted : {FALSE}]

\* the store is not touched by the file access guard
StoreQuiet ==
    /\ config = [databasePath |-> "sessions.db", enableSessionStore |-> FALSE,
                 requireRemoteApproval |-> FALSE, defaultChannelId |-> undefined]
    /\ dbOpenable = TRUE
    /\ db = AbsentDb
    /\ last = NoCall
    /\ approveHist = [k \in Keys |-> "never"]

FileInit ==
    /\ StoreQuiet
    /\ ToolsQuiet({})
    /\ \E x \in InitialFiles, p \in BOOLEAN :
          fs = [files |-> [i \in Inodes |-> IF i = "i1" THEN x ELSE OutsideInode],
                projectsDir |-> p]
    /\ names = InitialNames
    /\ call = IdleCall
    /\ races = 0

\* another process may still change the file system
MayRace == races < MaxRaces

\* another process makes a path lead to another file object, or to none:
\* a rename over it, a symbolic link put in its place, a removal
Repoint ==
    /\ MayRace
    /\ \E n \in SuppliedPaths, t \in Inodes \cup {NoFile} :
          /\ names[n] # t
          /\ names' = [names EXCEPT ![n] = t]
    /\ races' = races + 1
    /\ UNCHANGED <<fs, call>>
    /\ UNCHANGED <<svars, tvars>>

\* another process removes the entry of the file under test
Unlink ==
    /\ MayRace
    /\ ~fs.files["i1"].deleted
    /\ fs' = [fs EXCEPT !.files["i1"].deleted = TRUE,
                        !.files["i1"].nlink = @ - 1]
    /\ races' = races + 1
    /\ UNCHANGED <<names, call>>
    /\ UNCHANGED <<svars, tvars>>

\* another process gives the file under test one more hard link
Link ==
    /\ MayRace
    /\ fs.files["i1"].nlink = 1
    /\ fs' = [fs EXCEPT !.files["i1"].nlink = 2]
    /\ races' = races + 1
    /\ UNCHANGED <<names, call>>
    /\ UNCHANGED <<svars, tvars>>

\* another process moves the file under test to another place
Rename ==
    /\ MayRace
    /\ ~fs.files["i1"].deleted
    /\ \E l \in Locations :
          /\ fs.files["i1"].path # l
          /\ fs' = [fs EXCEPT !.files["i1"].path = l]
    /\ races' = races + 1
    /\ UNCHANGED <<names, call>>
    /\ UNCHANGED <<svars, tvars>>

\* another process appends to the file under test or rewrites it: its size
\* becomes another one
Rewrite ==
    /\ MayRace
    /\ \E size \in FileSizes :
          /\ fs.files["i1"].size # size
          /\ fs' = [fs EXCEPT !.files["i1"].size = size]
    /\ races' = races + 1
    /\ UNCHANGED <<names, call>>
    /\ UNCHANGED <<svars, tvars>>

\* validateFileAccess is called: resolve and openSync
ValidateOpen ==
    /\ call.pc = "idle"
    /\ \E filePath \in SuppliedPaths, allowedPrefixes \in PrefixLists :
          call' = [OpenStep(call, names, filePath, allowedPrefixes) EXCEPT
                     !.liveAtOpen = IF names[filePath] = NoFile THEN FALSE
                                    ELSE ~fs.files[names[filePath]].deleted]
    /\ UNCHANGED <<fs, names, races>>
    /\ UNCHANGED <<svars, tvars>>

\* the canonical path of the descriptor and the checks on it
ValidatePath ==
    /\ call.pc = "opened"
    /\ \E canon \in realpathOfFd(fs.files, call.fd) :
          call' = PathStep(call, fs, canon)
    /\ UNCHANGED <<fs, names, races>>
    /\ UNCHANGED <<svars, tvars>>

\* the stat of the descriptor and the checks on it
ValidateStats ==
    /\ call.pc = "pathChecked"
    /\ call' = StatsStep(call, fs, MaxBytes)
    /\ UNCHANGED <<fs, names, races>>
    /\ UNCHANGED <<svars, tvars>>

\* the read and the successful return
ValidateRead ==
    /\ call.pc = "statsChecked"
    /\ call' = ReadStep(call, fs, names)
    /\ UNCHANGED <<fs, names, races>>
    /\ UNCHANGED <<svars, tvars>>

\* the caller has the result
ValidateReturn ==
    /\ call.pc = "done"
    /\ call' = IdleCall
    /\ UNCHANGED <<fs, names, races>>
    /\ UNCHANGED <<svars, tvars>>

FileNext ==
    \/ Repoint
    \/ Unlink
    \/ Link
    \/ Rename
    \/ Rewrite
    \/ ValidateOpen
    \/ ValidatePath
    \/ ValidateStats
    \/ ValidateRead
    \/ ValidateReturn

FileSpec == FileInit /\ [][FileNext]_vars

(* ---------------- state machine: send_file ---------------- *)

\* DISCORD_LIMITS.messageContent
messageContent == 2000

\* the message argument by its length; 0 stands for an absent or empty one
MessageLengths == {0, 1, messageContent, messageContent + 1}

\* validateContentLength(content, limit, label)
validateContentLength(length, limit, label) ==
    IF length > limit THEN <<"Error: exceeds", label, limit>> ELSE NULL

\* basename of a canonical path
basename(path) == path[Len(path)]

\* no send_file call is in progress
IdleSend ==
    [pc |-> "idle", message |-> 0, validation |-> Rejected(NULL),
     resolves |-> 0, lookups |-> 0, target |-> NULL, sent |-> <<>>,
     result |-> NULL]

\* send_file going on to the channel whatever validateFileAccess returned
CheckValidationIgnored(sd, v) ==
    [sd EXCEPT !.pc = "resolving", !.validation = v]

\* send_file after validateFileAccess has returned v: the error, the
\* missing buffer or path, or on to resolveChannelId
CheckValidation(sd, v) ==
    IF v.error # NULL
    THEN [sd EXCEPT !.pc = "returned", !.validation = v, !.result = v.error]
    ELSE IF v.buffer = NoBuffer \/ v.realPath = <<>>
    THEN [sd EXCEPT !.pc = "returned", !.validation = v,
                    !.result = "Error: File validation failed"]
    ELSE [sd EXCEPT !.pc = "resolving", !.validation = v]

SendInit ==
    /\ config \in {c \in Configs : c.enableSessionStore /\ c.defaultChannelId = "c0"}
    /\ dbOpenable = TRUE
    /\ db = BoundDb
    /\ last = NoCall
    /\ approveHist = [k \in Keys |-> "never"]
    /\ \E x \in InitialFiles :
          fs = [files |-> [i \in Inodes |-> IF i = "i1" THEN x ELSE OutsideInode],
                projectsDir |-> TRUE]
    /\ names = InitialNames
    /\ call = IdleCall
    /\ races = 0
    /\ ToolsQuiet({"send"})
    /\ send = IdleSend

\* send_file is called: the message length check, then validateFileAccess
SendStart ==
    /\ send.pc = "idle"
    /\ call.pc = "idle"
    /\ \E m \in MessageLengths :
          LET messageError ==
                 IF m > 0 THEN validateContentLength(m, messageContent, "Message")
                 ELSE NULL
          IN  send' = IF messageError # NULL
                      THEN [send EXCEPT !.pc = "returned", !.message = m,
                                        !.result = messageError]
                      ELSE [send EXCEPT !.pc = "validating", !.message = m]
    /\ UNCHANGED <<svars, fvars, phase, calls, cmd, msg, wait, client, gate, split>>

\* validateFileAccess runs for send_file
SendValidate ==
    /\ send.pc = "validating"
    /\ (ValidateOpen \/ ValidatePath \/ ValidateStats \/ ValidateRead)

\* validateFileAccess has returned to send_file
SendCheck ==
    /\ send.pc = "validating"
    /\ call.pc = "done"
    /\ send' = CheckValidation(send, call.result)
    /\ call' = IdleCall
    /\ UNCHANGED <<svars, fs, names, races, phase, calls, cmd, msg, wait, client, gate, split>>

\* await resolveChannelId(config, channel_id, context, true)
SendResolve ==
    /\ send.pc = "resolving"
    /\ \E channel_id \in {undefined, "x1"}, sessionID \in {undefined, "k1"} :
          LET r == resolveChannelId(config, dbOpenable, db, channel_id,
                                    sessionID, TRUE, FALSE)
          IN  send' = [send EXCEPT
                         !.resolves = @ + 1,
                         !.lookups = @ + r.opens,
                         !.pc = IF r.outcome.threw THEN "returned" ELSE "sending",
                         !.target = IF r.outcome.threw THEN NULL
                                    ELSE r.outcome.value.channelId,
                         !.result = IF r.outcome.threw THEN r.outcome ELSE NULL]
    /\ UNCHANGED <<svars, fvars, phase, calls, cmd, msg, wait, client, gate, split>>

\* getChannel and channel.send: the message goes out with the attachment,
\* or Discord refuses and the call raises
SendDeliver ==
    /\ send.pc = "sending"
    /\ \/ send' = [send EXCEPT
                      !.pc = "returned",
                      !.sent = Append(@, [channel |-> send.target,
                                          content |-> send.message,
                                          attachment |-> send.validation.buffer,
                                          name |-> basename(send.validation.realPath)]),
                      !.result = "File sent"]
       \/ send' = [send EXCEPT !.pc = "returned", !.result = Throws("Discord")]
    /\ UNCHANGED <<svars, fvars, phase, calls, cmd, msg, wait, client, gate, split>>

\* the caller has the result of send_file
SendReturn ==
    /\ send.pc = "returned"
    /\ send' = IdleSend
    /\ UNCHANGED <<svars, fvars, phase, calls, cmd, msg, wait, client, gate, split>>

SendNext ==
    \/ Repoint
    \/ Unlink
    \/ Link
    \/ Rename
    \/ SendStart
    \/ SendValidate
    \/ SendCheck
    \/ SendResolve
    \/ SendDeliver
    \/ SendReturn

SendSpec == SendInit /\ [][SendNext]_vars

(* ---------------- state machine: run_project_command ---------------- *)

\* commands one behaviour hands to execSync
MaxRuns == 2

\* the enum of the command argument
EnumCommands ==
    {"npm test", "npm run build", "npm run lint", "npm install", "git status"}

\* config.allowedCommands after loadConfig: the default list, or the list of
\* the configuration file (an empty list is kept)
AllowedCommandLists ==
    {EnumCommands, {"git status"}, {"git status", "make deploy"}, {}}

\* project names: a directory of projectsDirectory, and a name that is none
ProjectNames == {"app", "ghost"}
existsSync(projectPath) == projectPath = <<"~/projects", "app">>

CONFIRMATION_ERROR == "Error: This tool requires explicit user confirmation"

\* the check asking every call for confirmation, whatever the list says
ConfirmationMissingUnlisted(name, allowedTools, confirmed) == ~confirmed

\* withUserConfirmation: the tool runs when it is listed or the call is confirmed
ConfirmationMissing(name, allowedTools, confirmed) ==
    name \notin allowedTools /\ ~confirmed

\* run_project_command: [executed, result] after one call
run_project_command(cfg, allowedTools, executed, project, command, confirmed, fails) ==
    LET projectPath == <<cfg.projectsDirectory, project>>
    IN  IF ConfirmationMissing("run_project_command", allowedTools, confirmed)
        THEN [executed |-> executed, result |-> CONFIRMATION_ERROR]
        ELSE IF ~existsSync(projectPath)
        THEN [executed |-> executed, result |-> "Error: Project not found"]
        ELSE [executed |-> Append(executed, [command |-> command, cwd |-> projectPath]),
              result |-> IF fails THEN "Error: Command failed" ELSE "output"]

CmdInit ==
    /\ config \in [allowedCommands : AllowedCommandLists,
                    enableProjectCommands : BOOLEAN,
                    projectsDirectory : {"~/projects"}]
    /\ dbOpenable = TRUE
    /\ db = AbsentDb
    /\ last = NoCall
    /\ approveHist = [k \in Keys |-> "never"]
    /\ FileQuiet
    /\ ToolsQuiet({"cmd"})
    /\ \E t \in {{}, {"run_project_command"}} :
          cmd = [allowedTools |-> t, executed |-> <<>>, result |-> NULL]

\* the host calls run_project_command, which buildTools offers when
\* enableProjectCommands is set, with arguments that pass the schema
RunProjectCommand ==
    /\ config.enableProjectCommands
    /\ Len(cmd.executed) < MaxRuns
    /\ \E project \in ProjectNames, command \in EnumCommands,
          confirmed \in BOOLEAN, fails \in BOOLEAN :
          LET r == run_project_command(config, cmd.allowedTools, cmd.executed,
                                       project, command, confirmed, fails)
          IN  cmd' = [cmd EXCEPT !.executed = r.executed, !.result = r.result]
    /\ UNCHANGED <<svars, fvars, phase, calls, send, msg, wait, client, gate, split>>

CmdNext == RunProjectCommand

CmdSpec == CmdInit /\ [][CmdNext]_vars

(* ---------------- splitMessageContent and send_discord_message ---------------- *)

\* the longest content a call is given
MaxText == 7
\* CHUNK_LIMIT is 1900 in discord.ts; scaled down with the texts
CHUNK_LIMIT == 3

\* the texts: two letters, the space and the line feed as characters
Texts == UNION {[1..n -> {"a", "b", " ", "\n"}] : n \in 0..MaxText}

\* String.prototype.lastIndexOf(ch, fromIndex), indexes from 0, -1 for none
lastIndexOf(text, ch, fromIndex) ==
    LET hits == {i \in 0..(Len(text) - 1) : i <= fromIndex /\ text[i + 1] = ch}
    IN  IF hits = {} THEN -1 ELSE CHOOSE x \in hits : \A y \in hits : y <= x

\* String.prototype.trimStart: leading spaces and line feeds dropped
RECURSIVE trimStart(_)
trimStart(text) ==
    IF text # <<>> /\ text[1] \in {" ", "\n"} THEN trimStart(Tail(text)) ELSE text

\* the split index taking any line feed or space found, however early
splitIndexNoHalf(remaining, maxLength) ==
    LET n == lastIndexOf(remaining, "\n", maxLength)
        sp == IF n = -1 THEN lastIndexOf(remaining, " ", maxLength) ELSE n
    IN  IF sp = -1 THEN maxLength ELSE sp

\* the split index of one round of the loop: the last line feed, else the
\* last space, at or before maxLength and not before its half, else maxLength
splitIndex(remaining, maxLength) ==
    LET n == lastIndexOf(remaining, "\n", maxLength)
        sp == IF n = -1 \/ 2 * n < maxLength
              THEN lastIndexOf(remaining, " ", maxLength) ELSE n
    IN  IF sp = -1 \/ 2 * sp < maxLength THEN maxLength ELSE sp

\* the while loop of splitMessageContent; remaining.slice(0, i) is the
\* chunk and remaining.slice(i).trimStart() what is left (indexes from 0)
RECURSIVE SplitLoop(_, _, _)
SplitLoop(remaining, maxLength, chunks) ==
    IF Len(remaining) = 0 THEN chunks
    ELSE IF Len(remaining) <= maxLength THEN Append(chunks, remaining)
    ELSE LET i == splitIndex(remaining, maxLength)
         IN  SplitLoop(trimStart(SubSeq(remaining, i + 1, Len(remaining))),
                       maxLength,
                       Append(chunks, SubSeq(remaining, 1, i)))

splitMessageContent(text, maxLength) ==
    IF Len(text) <= maxLength THEN <<text>>
    ELSE SplitLoop(text, maxLength, <<>>)

\* no send_discord_message call is in progress
IdleMsg ==
    [pc |-> "idle", content |-> <<>>, resolves |-> 0, target |-> NULL,
     chunks |-> <<>>, next |-> 1, inflight |-> {}, delivered |-> <<>>,
     messageIds |-> <<>>, result |-> NULL]

\* the sends started without awaiting the one before
MayStartUnawaited(m) == TRUE

\* the for loop awaits each channel.send before the next round
MayStart(m) == m.inflight = {}

MsgInit ==
    /\ config = [databasePath |-> "sessions.db", enableSessionStore |-> TRUE,
                 requireRemoteApproval |-> FALSE, defaultChannelId |-> "c0"]
    /\ dbOpenable = TRUE
    /\ db = BoundDb
    /\ last = NoCall
    /\ approveHist = [k \in Keys |-> "never"]
    /\ FileQuiet
    /\ ToolsQuiet({"msg"})
    /\ msg = IdleMsg

\* send_discord_message is called with some content
MsgStart ==
    /\ msg.pc = "idle"
    /\ \E content \in Texts :
          msg' = [msg EXCEPT !.pc = "resolving", !.content = content]
    /\ UNCHANGED <<svars, fvars, phase, calls, send, cmd, wait, client, gate, split>>

\* await resolveChannelId, await getChannel, then splitMessageContent
MsgResolve ==
    /\ msg.pc = "resolving"
    /\ \E sessionID \in {undefined, "k1"}, found \in BOOLEAN :
          LET r == resolveChannelId(config, dbOpenable, db, undefined,
                                    sessionID, TRUE, FALSE).outcome
          IN  msg' = IF r.threw \/ ~found
                     THEN [msg EXCEPT !.pc = "returned", !.resolves = @ + 1,
                                      !.result = Throws("NoChannel")]
                     ELSE [msg EXCEPT !.pc = "sending", !.resolves = @ + 1,
                                      !.target = r.value.channelId,
                                      !.chunks = splitMessageContent(msg.content,
                                                                     CHUNK_LIMIT)]
    /\ UNCHANGED <<svars, fvars, phase, calls, send, cmd, wait, client, gate, split>>

\* a round of the loop calls channel.send(chunk)
MsgSendChunk ==
    /\ msg.pc = "sending"
    /\ msg.next <= Len(msg.chunks)
    /\ MayStart(msg)
    /\ msg' = [msg EXCEPT !.inflight = @ \cup {msg.next}, !.next = @ + 1]
    /\ UNCHANGED <<svars, fvars, phase, calls, send, cmd, wait, client, gate, split>>

\* a send completes: Discord stores the message and returns its id, which is
\* pushed to messageIds, or refuses it and the call raises
MsgChunkDone ==
    /\ msg.pc = "sending"
    /\ \E i \in msg.inflight :
          \/ LET id == Len(msg.delivered) + 1
             IN  msg' = [msg EXCEPT
                           !.inflight = @ \ {i},
                           !.delivered = Append(@, [channel |-> msg.target,
                                                    content |-> msg.chunks[i],
                                                    id |-> id]),
                           !.messageIds = Append(@, id)]
          \/ msg' = [msg EXCEPT !.pc = "returned", !.inflight = @ \ {i},
                                !.result = Throws("Discord")]
    /\ UNCHANGED <<svars, fvars, phase, calls, send, cmd, wait, client, gate, split>>

\* the loop is over: the reply names the ids in messageIds
MsgFinish ==
    /\ msg.pc = "sending"
    /\ msg.next > Len(msg.chunks)
    /\ msg.inflight = {}
    /\ msg' = [msg EXCEPT
                  !.pc = "returned",
                  !.result = Returns(
                      IF Len(msg.chunks) = 1
                      THEN [text |-> "Message sent", count |-> 1,
                            ids |-> <<msg.messageIds[1]>>]
                      ELSE [text |-> "messages sent", count |-> Len(msg.chunks),
                            ids |-> msg.messageIds])]
    /\ UNCHANGED <<svars, fvars, phase, calls, send, cmd, wait, client, gate, split>>

\* the caller has the reply
MsgReturn ==
    /\ msg.pc = "returned"
    /\ msg' = IdleMsg
    /\ UNCHANGED <<svars, fvars, phase, calls, send, cmd, wait, client, gate, split>>

MsgNext ==
    \/ MsgStart
    \/ MsgResolve
    \/ MsgSendChunk
    \/ MsgChunkDone
    \/ MsgFinish
    \/ MsgReturn

MsgSpec == MsgInit /\ [][MsgNext]_vars

(* ---------------- state machine: splitMessageContent ---------------- *)

\* the largest maxLength a call passes
MaxLength == 3

\* splitMessageContent(text, maxLength) has been called
SplitInit ==
    /\ StoreQuiet
    /\ FileQuiet
    /\ ToolsQuiet({"split"})
    /\ \E text \in Texts, maxLength \in 1..MaxLength :
          split = [pc |-> "called", text |-> text, maxLength |-> maxLength,
                   remaining |-> text, chunks |-> <<>>, rounds |-> 0]

\* if (text.length <= maxLength) return [text]; else the loop is entered
SplitEnter ==
    /\ split.pc = "called"
    /\ split' = IF Len(split.text) <= split.maxLength
                THEN [split EXCEPT !.pc = "returned", !.chunks = <<split.text>>,
                                   !.remaining = <<>>]
                ELSE [split EXCEPT !.pc = "loop"]
    /\ UNCHANGED <<svars, fvars, phase, calls, send, cmd, msg, wait, client, gate>>

\* one test of the while condition and one round of the loop
SplitRound ==
    /\ split.pc = "loop"
    /\ split' =
          IF Len(split.remaining) = 0 THEN [split EXCEPT !.pc = "returned"]
          ELSE IF Len(split.remaining) <= split.maxLength
          THEN [split EXCEPT !.pc = "returned", !.rounds = @ + 1,
                             !.chunks = Append(@, split.remaining),
                             !.remaining = <<>>]
          ELSE LET i == splitIndex(split.remaining, split.maxLength)
               IN  [split EXCEPT
                      !.rounds = @ + 1,
                      !.chunks = Append(@, SubSeq(split.remaining, 1, i)),
                      !.remaining = trimStart(SubSeq(split.remaining, i + 1,
                                                     Len(split.remaining)))]
    /\ UNCHANGED <<svars, fvars, phase, calls, send, cmd, msg, wait, client, gate>>

SplitNext ==
    \/ SplitEnter
    \/ SplitRound

SplitSpec == SplitInit /\ [][SplitNext]_vars

(* ---------------- state machine: interactive waits ---------------- *)

\* ticks of the clock the longest wait lasts
MaxTicks == 2
\* clicks the filter of one wait turns away
MaxClicks == 2

\* who may click: the session user, another person, a bot
Users ==
    {[id |-> "u1", bot |-> FALSE], [id |-> "u2", bot |-> FALSE],
     [id |-> "b1", bot |-> TRUE]}

\* the buttons on the message: those of request_approval, or two of send_buttons
ButtonsOf(name) ==
    IF name = "request_approval" THEN {"approve", "deny"} ELSE {"yes", "no"}

\* allowed_user_ids as passed: absent, empty, a blank id, or another person
AllowedUserLists == {undefined, <<>>, <<"">>, <<"u2">>}

\* await_button_click: allowed_user_ids?.filter(Boolean) ?? [], replaced by
\* the session user when empty and a session user is known
allowedUsersOf(allowed_user_ids, sessionUserId) ==
    LET given == IF allowed_user_ids = undefined THEN {}
                 ELSE {allowed_user_ids[i] : i \in 1..Len(allowed_user_ids)} \ {""}
    IN  IF given = {} /\ Truthy(sessionUserId) THEN {sessionUserId} ELSE given

\* the filter letting every click through
filterOfEveryone(w, user) == TRUE

\* the filter of the wait: request_approval takes every user that is no
\* bot; await_button_click the allowed users, or everyone when none is known
filterOf(w, user) ==
    IF w.name = "request_approval" THEN ~user.bot
    ELSE IF w.allowedUsers # {} THEN user.id \in w.allowedUsers
    ELSE TRUE

\* what the tool returns when a step before the wait raised: the message of
\* the error
ErrorResult(name) ==
    IF name = "request_approval" THEN "Error"
    ELSE [error |-> "Error", button_id |-> NULL, user_id |-> NULL]

\* what the catch block returns
TimeoutResult(name) ==
    IF name = "request_approval" THEN "denied: timeout"
    ELSE [error |-> "timeout", button_id |-> NULL, user_id |-> NULL]

\* what the tool returns for the interaction it was handed
ClickResult(name, user, customId) ==
    IF name = "request_approval"
    THEN (IF customId = "approve" THEN "approved" ELSE "denied")
    ELSE [error |-> NULL, button_id |-> customId, user_id |-> user.id]

NoClick == [user |-> NULL, customId |-> NULL, at |-> -1]

\* no interactive wait is in progress
IdleWait ==
    [pc |-> "idle", name |-> NULL, allowed_user_ids |-> undefined,
     sessionUserId |-> undefined, allowedUsers |-> {}, timeout |-> 0,
     elapsed |-> 0, refused |-> 0, accepted |-> NoClick, outcomes |-> <<>>]

WaitInit ==
    /\ StoreQuiet
    /\ FileQuiet
    /\ ToolsQuiet({"wait"})
    /\ wait = IdleWait

\* request_approval or await_button_click is called: the channel is
\* resolved and the message sent or fetched, which may fail and end the
\* call with an error, and awaitMessageComponent starts the clock
WaitStart ==
    /\ wait.pc = "idle"
    /\ \E name \in {"request_approval", "await_button_click"}, ok \in BOOLEAN,
          timeout \in 1..MaxTicks, allowed_user_ids \in AllowedUserLists,
          sessionUserId \in {undefined, "u1"} :
          wait' = IF ~ok
                  THEN [IdleWait EXCEPT !.pc = "returned", !.name = name,
                                        !.outcomes = <<ErrorResult(name)>>]
                  ELSE [IdleWait EXCEPT
                          !.pc = "waiting", !.name = name, !.timeout = timeout,
                          !.allowed_user_ids = allowed_user_ids,
                          !.sessionUserId = sessionUserId,
                          !.allowedUsers =
                              IF name = "request_approval" THEN {}
                              ELSE allowedUsersOf(allowed_user_ids, sessionUserId)]
    /\ UNCHANGED <<svars, fvars, phase, calls, send, cmd, msg, client, gate, split>>

\* time passes while the collector listens
WaitTick ==
    /\ wait.pc = "waiting"
    /\ wait.elapsed < wait.timeout
    /\ wait' = [wait EXCEPT !.elapsed = @ + 1]
    /\ UNCHANGED <<svars, fvars, phase, calls, send, cmd, msg, client, gate, split>>

\* somebody clicks a button of the message before the time is up: the
\* filter turns the click away, or the collector hands the interaction to
\* the tool, which acknowledges it (a failure is only logged) and returns
WaitClick ==
    /\ wait.pc = "waiting"
    /\ wait.elapsed < wait.timeout
    /\ \E user \in Users, customId \in ButtonsOf(wait.name) :
          IF filterOf(wait, user)
          THEN wait' = [wait EXCEPT
                          !.pc = "returned",
                          !.accepted = [user |-> user, customId |-> customId,
                                        at |-> wait.elapsed],
                          !.outcomes = Append(@, ClickResult(wait.name, user, customId))]
          ELSE /\ wait.refused < MaxClicks
               /\ wait' = [wait EXCEPT !.refused = @ + 1]
    /\ UNCHANGED <<svars, fvars, phase, calls, send, cmd, msg, client, gate, split>>

\* the collector ends with nothing collected, the time being up or the
\* message gone: awaitMessageComponent rejects and the catch block returns
WaitTimeout ==
    /\ wait.pc = "waiting"
    /\ \E reason \in {"time", "messageDelete"} :
          reason = "time" => wait.elapsed = wait.timeout
    /\ wait' = [wait EXCEPT !.pc = "returned",
                            !.outcomes = Append(@, TimeoutResult(wait.name))]
    /\ UNCHANGED <<svars, fvars, phase, calls, send, cmd, msg, client, gate, split>>

\* the caller has the outcome
WaitReturn ==
    /\ wait.pc = "returned"
    /\ wait' = IdleWait
    /\ UNCHANGED <<svars, fvars, phase, calls, send, cmd, msg, client, gate, split>>

WaitNext ==
    \/ WaitStart
    \/ WaitTick
    \/ WaitClick
    \/ WaitTimeout
    \/ WaitReturn

WaitSpec == WaitInit /\ [][WaitNext]_vars

(* ---------------- state machine: getClient ---------------- *)

\* clients one behaviour constructs
MaxClients == 3

\* no client yet: `let discordClient: Client | null = null`; a constructed
\* client is numbered in the order of construction
NoClient == 0

ClientInit ==
    /\ StoreQuiet
    /\ FileQuiet
    /\ ToolsQuiet({"client"})
    /\ client = [discordClient |-> NoClient,
                 state |-> <<>>,
                 proc |-> [p \in Procs |-> [pc |-> "new"]]]

\* discordClient?.isReady()
isReady(c) ==
    c.discordClient # NoClient /\ c.state[c.discordClient] = "ready"

\* getClient is called: the ready client is returned, or a client is
\* constructed, stored in discordClient and its login awaited
GetClientStart(p) ==
    /\ client.proc[p].pc = "new"
    /\ IF isReady(client)
       THEN client' = [client EXCEPT !.proc[p] =
                         [pc |-> "done", returned |-> client.discordClient,
                          loggedIn |-> TRUE]]
       ELSE /\ Len(client.state) < MaxClients
            /\ LET id == Len(client.state) + 1
               IN  client' = [client EXCEPT
                                !.discordClient = id,
                                !.state = Append(@, "loggingIn"),
                                !.proc[p] = [pc |-> "awaiting", login |-> id]]
    /\ UNCHANGED <<svars, fvars, phase, calls, send, cmd, msg, wait, gate, split>>

\* the gateway accepts the login of a client, and later reports it ready
ClientProgress ==
    /\ \E id \in 1..Len(client.state) :
          \/ /\ client.state[id] = "loggingIn"
             /\ client' = [client EXCEPT !.state[id] = "loggedIn"]
          \/ /\ client.state[id] = "loggedIn"
             /\ client' = [client EXCEPT !.state[id] = "ready"]
    /\ UNCHANGED <<svars, fvars, phase, calls, send, cmd, msg, wait, gate, split>>

\* the awaited login has resolved: `return discordClient` reads the module
\* variable as it is now
GetClientResume(p) ==
    /\ client.proc[p].pc = "awaiting"
    /\ client.state[client.proc[p].login] \in {"loggedIn", "ready"}
    /\ client' = [client EXCEPT !.proc[p] =
          [pc |-> "done", returned |-> client.discordClient,
           loggedIn |-> client.state[client.discordClient] \in {"loggedIn", "ready"}]]
    /\ UNCHANGED <<svars, fvars, phase, calls, send, cmd, msg, wait, gate, split>>

\* the caller has its client and may call again
GetClientReturn(p) ==
    /\ client.proc[p].pc = "done"
    /\ client' = [client EXCEPT !.proc[p] = [pc |-> "new"]]
    /\ UNCHANGED <<svars, fvars, phase, calls, send, cmd, msg, wait, gate, split>>

ClientNext ==
    \/ \E p \in Procs : GetClientStart(p)
    \/ ClientProgress
    \/ \E p \in Procs : GetClientResume(p)
    \/ \E p \in Procs : GetClientReturn(p)

ClientSpec == ClientInit /\ [][ClientNext]_vars

(* ---------------- state machine: tools behind withUserConfirmation ---- *)

\* tool calls one behaviour makes
MaxInvocations == 2

\* two of the tools that buildTools wraps
WrappedTools == {"send_discord_message", "create_thread_for_conversation"}

\* resolveAllowedTools: the set of config.allowedTools or, when that is
\* absent or empty, of the names listed under '## Allowed Tools'
AllowedToolSets == SUBSET WrappedTools

\* args.confirmed_by_user, an optional boolean, as the host passes it
ConfirmedByUser == {"absent", "false", "true"}

\* Boolean(args.confirmed_by_user)
Boolean(v) == v = "true"

\* what a throw statement carries: an Error with its message, or another value
ErrorOf(message) == [isError |-> TRUE, message |-> message]
NotAnError == [isError |-> FALSE, message |-> undefined]

TOOL_FAILED == "Error: Tool execution failed."

\* the catch block handing a value that is no Error on to the caller
CaughtErrorsOnly(outcome) ==
    IF ~outcome.threw THEN [raised |-> FALSE, text |-> outcome.value]
    ELSE IF outcome.error.isError
    THEN [raised |-> FALSE, text |-> outcome.error.message]
    ELSE [raised |-> TRUE, text |-> undefined]

\* try { return await definition.execute(args, context) } catch (error):
\* what the wrapped execute hands to its caller
Caught(outcome) ==
    IF ~outcome.threw THEN [raised |-> FALSE, text |-> outcome.value]
    ELSE IF outcome.error.isError
    THEN [raised |-> FALSE, text |-> outcome.error.message]
    ELSE [raised |-> FALSE, text |-> TOOL_FAILED]

\* how a call of the chat client ends: it resolves, it rejects with an Error
\* of the library, it rejects with another value
ClientOutcomes == {"resolves", "rejects", "rejectsOther"}

\* the thrown value of a rejected call of the chat client
Rejection(o) == IF o = "rejects" THEN ErrorOf("DiscordAPIError") ELSE NotAnError

\* definition.execute has thrown nothing
NoThrow == [threw |-> FALSE, isError |-> FALSE, message |-> NULL]

\* no thread was created, no reply was built
NoThread == [id |-> NULL, parentId |-> NULL, ownerId |-> NULL]
NoReply ==
    [thread_created |-> FALSE, thread_id |-> NULL, session_id |-> NULL,
     session_registered |-> FALSE]

\* no wrapped tool is being called
IdleGate ==
    [pc |-> "idle", name |-> NULL, confirmed_by_user |-> "absent",
     invoked |-> 0, opens |-> 0, resolves |-> 0, platform |-> 0,
     target |-> NULL, thread |-> NoThread, agentType |-> "ask",
     reply |-> NoReply, thrown |-> NoThrow,
     result |-> [raised |-> FALSE, text |-> NULL]]

GateInit ==
    /\ config \in Configs
    /\ dbOpenable \in BOOLEAN
    /\ db \in {ServedDb, BoundDb}
    /\ last = NoCall
    /\ approveHist = [k \in Keys |-> "never"]
    /\ FileQuiet
    /\ ToolsQuiet({"gate"})
    /\ \E allowedTools \in AllowedToolSets :
          gate = [allowedTools |-> allowedTools, made |-> 0, before |-> db,
                  threads |-> {}, sent |-> <<>>, now |-> IdleGate]

\* what a gate action leaves alone
GateFrame ==
    UNCHANGED <<config, dbOpenable, last, approveHist, fvars,
                phase, calls, send, cmd, msg, wait, client, split>>

\* the wrapped execute returns Caught(outcome) to the host
Finish(g, outcome) ==
    [g EXCEPT !.now.pc = "returned",
              !.now.thrown = IF outcome.threw
                             THEN [threw |-> TRUE,
                                   isError |-> outcome.error.isError,
                                   message |-> outcome.error.message]
                             ELSE NoThrow,
              !.now.result = Caught(outcome)]

\* the host calls a wrapped tool: the confirmation check, then
\* definition.execute
GateCall ==
    /\ gate.now.pc = "idle"
    /\ gate.made < MaxInvocations
    /\ \E name \in WrappedTools, confirmed_by_user \in ConfirmedByUser :
          LET started == [gate EXCEPT !.made = @ + 1, !.before = db,
                                      !.now.name = name,
                                      !.now.confirmed_by_user = confirmed_by_user]
          IN  gate' = IF ConfirmationMissing(name, gate.allowedTools,
                                             Boolean(confirmed_by_user))
                      THEN Finish(started, Returns(CONFIRMATION_ERROR))
                      ELSE [started EXCEPT !.now.pc = "executing",
                                           !.now.invoked = @ + 1]
    /\ UNCHANGED db
    /\ GateFrame

\* send_discord_message: await resolveChannelId(config, channel_id, context, true)
GateResolve ==
    /\ gate.now.pc = "executing"
    /\ gate.now.name = "send_discord_message"
    /\ \E channel_id \in {undefined, "x1"}, sessionID \in {undefined, "k1"} :
          LET r == resolveChannelId(config, dbOpenable, db, channel_id,
                                    sessionID, TRUE, FALSE)
              seen == [gate EXCEPT !.now.resolves = @ + 1,
                                   !.now.opens = @ + r.opens]
          IN  gate' = IF r.outcome.threw
                      THEN Finish(seen, Throws(ErrorOf(r.outcome.error)))
                      ELSE [seen EXCEPT !.now.pc = "resolved",
                                        !.now.target = r.outcome.value.channelId]
    /\ UNCHANGED db
    /\ GateFrame

\* send_discord_message: await getChannel, await channel.send(chunk)
GateSend ==
    /\ gate.now.pc = "resolved"
    /\ \E fetched \in ClientOutcomes \cup {"notTextBased"}, o \in ClientOutcomes :
          LET seen == [gate EXCEPT !.now.platform = @ + 1]
          IN  gate' =
                IF fetched = "notTextBased"
                THEN Finish(seen, Throws(ErrorOf("Invalid channel")))
                ELSE IF fetched # "resolves"
                THEN Finish(seen, Throws(Rejection(fetched)))
                ELSE IF o # "resolves"
                THEN Finish([seen EXCEPT !.now.platform = @ + 1],
                            Throws(Rejection(o)))
                ELSE Finish([seen EXCEPT !.now.platform = @ + 1,
                                         !.sent = Append(@, gate.now.target)],
                            Returns("Message sent"))
    /\ UNCHANGED db
    /\ GateFrame

\* the id the chat platform gives the next thread
NewThreadId(threads) == "n" \o ToString(Cardinality(threads) + 1)

\* create_thread_for_conversation: await getChannel(config, channel_id) and
\* the channel type check
GateFetchParent ==
    /\ gate.now.pc = "executing"
    /\ gate.now.name = "create_thread_for_conversation"
    /\ \E fetched \in ClientOutcomes \cup {"notTextBased", "notGuildText"},
          agent_type \in {undefined, "ask", "project"} :
          LET seen == [gate EXCEPT
                         !.now.platform = @ + 1,
                         !.now.agentType = IF Truthy(agent_type)
                                           THEN agent_type ELSE "ask"]
          IN  gate' =
                IF fetched = "notTextBased"
                THEN Finish(seen, Throws(ErrorOf("Invalid channel")))
                ELSE IF fetched = "notGuildText"
                THEN Finish(seen, Returns("Can only create threads in text channels"))
                ELSE IF fetched # "resolves"
                THEN Finish(seen, Throws(Rejection(fetched)))
                ELSE [seen EXCEPT !.now.pc = "fetched"]
    /\ UNCHANGED db
    /\ GateFrame

\* await channel.threads.create(...): the thread exists on the platform
GateCreateThread ==
    /\ gate.now.pc = "fetched"
    /\ \E o \in ClientOutcomes, ownerId \in {NULL, "u1"} :
          LET seen == [gate EXCEPT !.now.platform = @ + 1]
              id == NewThreadId(gate.threads)
          IN  gate' =
                IF o # "resolves" THEN Finish(seen, Throws(Rejection(o)))
                ELSE [seen EXCEPT
                        !.threads = @ \cup {id},
                        !.now.pc = "created",
                        !.now.thread = [id |-> id, parentId |-> "c0",
                                        ownerId |-> ownerId]]
    /\ UNCHANGED db
    /\ GateFrame

\* await thread.send(initial_message)
GateFirstMessage ==
    /\ gate.now.pc = "created"
    /\ \E o \in ClientOutcomes :
          LET seen == [gate EXCEPT !.now.platform = @ + 1]
          IN  gate' =
                IF o # "resolves" THEN Finish(seen, Throws(Rejection(o)))
                ELSE [seen EXCEPT !.now.pc = "greeted",
                                  !.sent = Append(@, gate.now.thread.id)]
    /\ UNCHANGED db
    /\ GateFrame

\* await registerThreadSession(config, thread, agent_type || 'ask') and the
\* JSON reply
GateRegister ==
    /\ gate.now.pc = "greeted"
    /\ \E now \in ClockReadings :
          LET r == registerThreadSession(config, dbOpenable, db, FreshId(db),
                                         gate.now.thread, gate.now.agentType, now)
              seen == [gate EXCEPT
                         !.now.opens = @ + (IF config.enableSessionStore THEN 1 ELSE 0),
                         !.now.reply = ThreadCreatedReply(gate.now.thread, r.result)]
          IN  /\ db' = r.db
              /\ gate' = Finish(seen, IF r.threw THEN Throws(ErrorOf("register"))
                                      ELSE Returns("thread_created"))
    /\ GateFrame

\* the host has the reply
GateReturn ==
    /\ gate.now.pc = "returned"
    /\ gate' = [gate EXCEPT !.now = IdleGate]
    /\ UNCHANGED db
    /\ GateFrame

GateNext ==
    \/ GateCall
    \/ GateResolve
    \/ GateSend
    \/ GateFetchParent
    \/ GateCreateThread
    \/ GateFirstMessage
    \/ GateRegister
    \/ GateReturn

GateSpec == GateInit /\ [][GateNext]_vars

(* ---------------- properties ---------------- *)

\* the store can be opened and the sessions query runs
Queryable == dbOpenable /\ db.hasTable /\ db.hasRemoteAllowed

\* the row .get() returns for key k: the first match in rowid order
FirstRow(k) == db.rows[Min(Matching(db, k))]

\* the lookup for key k runs and finds a thread id on record
ThreadOnRecord(k) ==
    /\ config.enableSessionStore
    /\ Truthy(k)
    /\ Queryable
    /\ Matching(db, k) # {}
    /\ Truthy(FirstRow(k).discord_thread_id)

IsResolve == last.op = "resolve"

\* the explicit override applies to the last resolve call
OverrideApplies == last.preferExplicit /\ Truthy(last.explicit)

\* approval is required at the call site and globally
ApprovalRequired == last.requireRemoteApproval /\ config.requireRemoteApproval

\* what the fallback chain yields for the last resolve call
FallbackExpected ==
    IF Truthy(last.explicit) THEN Resolved(last.explicit, FALSE)
    ELSE IF Truthy(config.defaultChannelId) THEN Resolved(config.defaultChannelId, FALSE)
    ELSE Throws("CouldNotResolve")

\* C1: session-bound branch.  When the session feature is enabled, the
\* explicit override does not apply, the key's row has a non-empty thread id
\* and it is not the case that approval is required (call site and config)
\* and the row is unapproved, resolveChannelId returns the row's thread id
\* with fromSession = TRUE, whatever the explicit id.
C1_SessionBound ==
    (/\ IsResolve
     /\ ~OverrideApplies
     /\ ThreadOnRecord(last.key)
     /\ ~(ApprovalRequired /\ FirstRow(last.key).remote_allowed # 1))
    => last.outcome = Resolved(FirstRow(last.key).discord_thread_id, TRUE)

\* a resolve returned the session thread although a different non-empty
\* explicit id was supplied
C1_Witness ==
    /\ IsResolve
    /\ ~OverrideApplies
    /\ ThreadOnRecord(last.key)
    /\ Truthy(last.explicit)
    /\ last.explicit # FirstRow(last.key).discord_thread_id
    /\ ~last.outcome.threw
    /\ last.outcome.value.fromSession

\* C2: unapproved branch.  When the lookup finds a row with a thread id,
\* approval is required by both flags and the row's remote_allowed is 0, the
\* call returns the explicit id with fromSession = FALSE if one was supplied
\* and otherwise fails with the not-approved error; never the session thread,
\* never the default channel.
C2_Unapproved ==
    (/\ IsResolve
     /\ ThreadOnRecord(last.key)
     /\ ApprovalRequired
     /\ FirstRow(last.key).remote_allowed = 0)
    => last.outcome = IF Truthy(last.explicit)
                      THEN Resolved(last.explicit, FALSE)
                      ELSE Throws("NotApproved")

\* the not-approved failure although a default channel is configured
C2_Witness ==
    /\ IsResolve
    /\ ThreadOnRecord(last.key)
    /\ ApprovalRequired
    /\ FirstRow(last.key).remote_allowed = 0
    /\ ~Truthy(last.explicit)
    /\ Truthy(config.defaultChannelId)
    /\ last.outcome = Throws("NotApproved")

\* C3: with preferExplicit and a non-empty explicit id the result is the
\* explicit id with fromSession = FALSE, a function of the explicit id alone,
\* and the store is not opened.
C3_ExplicitOverride ==
    (IsResolve /\ OverrideApplies)
    => /\ last.outcome = Resolved(last.explicit, FALSE)
       /\ last.opens = 0

\* the override won over an approved session binding the store holds
C3_Witness ==
    /\ IsResolve
    /\ OverrideApplies
    /\ ThreadOnRecord(last.key)
    /\ FirstRow(last.key).remote_allowed = 1
    /\ last.outcome = Resolved(last.explicit, FALSE)

\* no explicit id, a correlation key, approval required by both flags, and
\* no row of that key approved
GatedCall ==
    /\ IsResolve
    /\ ApprovalRequired
    /\ ~Truthy(last.explicit)
    /\ Truthy(last.key)
    /\ \A i \in Matching(db, last.key) : db.rows[i].remote_allowed # 1

\* C4 as claimed: a gated call never returns a target channel.
C4_Original == GatedCall => last.outcome.threw

\* C4 as amended: a gated call never returns the session thread.  It fails
\* with the not-approved error when the lookup finds a thread id; when it
\* finds none it returns the configured default channel with fromSession =
\* FALSE if one is configured and fails with could-not-resolve otherwise.
C4_ApprovalGate ==
    GatedCall
    => last.outcome =
         IF ThreadOnRecord(last.key) THEN Throws("NotApproved")
         ELSE IF Truthy(config.defaultChannelId)
         THEN Resolved(config.defaultChannelId, FALSE)
         ELSE Throws("CouldNotResolve")

\* a gated call on an unapproved bound session failed with not-approved
C4_Witness ==
    /\ GatedCall
    /\ ThreadOnRecord(last.key)
    /\ Truthy(config.defaultChannelId)
    /\ last.outcome = Throws("NotApproved")

\* C5: fallback chain.  When no session binding applies (feature disabled,
\* no correlation key, or the lookup yields no thread id) the call returns
\* the explicit id if non-empty, else the default channel if non-empty, else
\* fails with could-not-resolve; fromSession is FALSE on success.
C5_FallbackChain ==
    (IsResolve /\ ~ThreadOnRecord(last.key))
    => last.outcome = FallbackExpected

\* an empty explicit id was passed over for the default channel
C5_Witness ==
    /\ IsResolve
    /\ ~ThreadOnRecord(last.key)
    /\ last.explicit = ""
    /\ last.outcome = Resolved(config.defaultChannelId, FALSE)

\* the lookup of the last resolve call ran against a store that cannot be
\* opened or queried
LookupFailed ==
    /\ config.enableSessionStore
    /\ Truthy(last.key)
    /\ ~Queryable

\* C6: a store that cannot be opened or queried during the lookup is not an
\* error of the call: the lookup yields null and the resolver continues as
\* if no session binding existed.
C6_StoreErrorDegrades ==
    /\ (IsResolve /\ ~OverrideApplies /\ LookupFailed)
          => (last.opens = 1 /\ last.outcome = FallbackExpected)
    /\ (last.op = "lookup" /\ LookupFailed)
          => last.outcome = Returns(NullSession)

\* the store held a bound row but could not be opened, and the call went on
\* to the default channel
C6_Witness ==
    /\ IsResolve
    /\ ~OverrideApplies
    /\ LookupFailed
    /\ ~dbOpenable
    /\ Matching(db, last.key) # {}
    /\ Truthy(FirstRow(last.key).discord_thread_id)
    /\ last.outcome = Resolved(config.defaultChannelId, FALSE)

\* the first row of key k carries a thread id
BoundFirst(k) ==
    /\ Matching(db, k) # {}
    /\ Truthy(FirstRow(k).discord_thread_id)

\* a resolve with a correlation key, approval required and no explicit id,
\* against a store that is enabled, openable and queryable
GatedSend ==
    /\ IsResolve
    /\ ApprovalRequired
    /\ ~Truthy(last.explicit)
    /\ Truthy(last.key)
    /\ config.enableSessionStore
    /\ Queryable

\* a lookup with a correlation key against such a store
WorkingLookup ==
    /\ last.op = "lookup"
    /\ Truthy(last.key)
    /\ config.enableSessionStore
    /\ Queryable

\* C7 as claimed: some row with key k and a thread id exists; before
\* approve(k) the gated resolve fails with the approval error, after
\* approve(k) returned true lookups report approved and the gated resolve
\* returns such a row's thread id with fromSession = TRUE.
C7_Original ==
    /\ (GatedSend /\ HasBoundRow(db, last.key) /\ approveHist[last.key] = "never")
          => last.outcome = Throws("NotApproved")
    /\ (GatedSend /\ approveHist[last.key] = "bound")
          => /\ ~last.outcome.threw
             /\ last.outcome.value.fromSession
             /\ \E i \in Matching(db, last.key) :
                   /\ Truthy(db.rows[i].discord_thread_id)
                   /\ last.outcome.value.channelId = db.rows[i].discord_thread_id
    /\ (WorkingLookup /\ approveHist[last.key] = "bound")
          => last.outcome.value.remoteAllowed

\* C7 as amended: the same with "the first row with key k has a thread id"
\* in place of "some row", the store openable and queryable and the session
\* feature enabled at each call.
C7_ApproveThenUse ==
    /\ (GatedSend /\ BoundFirst(last.key) /\ approveHist[last.key] = "never")
          => last.outcome = Throws("NotApproved")
    /\ (GatedSend /\ BoundFirst(last.key) /\ approveHist[last.key] = "bound")
          => last.outcome = Resolved(FirstRow(last.key).discord_thread_id, TRUE)
    /\ (WorkingLookup /\ approveHist[last.key] = "bound")
          => last.outcome.value.remoteAllowed

\* after approve(k) returned true a gated resolve returned the thread
C7_Witness ==
    /\ GatedSend
    /\ BoundFirst(last.key)
    /\ approveHist[last.key] = "bound"
    /\ last.outcome = Resolved(FirstRow(last.key).discord_thread_id, TRUE)

\* what a lookup for key k reports as approved
LookupApproved(k) ==
    getThreadIdFromSession(config, dbOpenable, db, k).outcome.value.remoteAllowed

\* C8: the store is monotone.  No step removes a row or turns a row's
\* remote_allowed from 1 to 0, and under the program's operations (the file
\* staying as openable as it was) a key whose lookup reports approved keeps
\* reporting approved.  A lookup reads the configuration, which is fixed,
\* the file's openability and the store, so only steps that change the
\* store can change what it reports.
C8_Monotone ==
    [][/\ Len(db'.rows) >= Len(db.rows)
       /\ \A i \in 1..Len(db.rows) :
             /\ db'.rows[i].id = db.rows[i].id
             /\ db.rows[i].remote_allowed = 1 => db'.rows[i].remote_allowed = 1
       /\ (dbOpenable' = dbOpenable /\ db' # db) =>
             \A k \in Keys : LookupApproved(k) => LookupApproved(k)'
      ]_vars

\* an approved row is still there, approved, after a later register
C8_Witness ==
    /\ last.op = "register"
    /\ last.result # NULL
    /\ \E i \in 1..Len(db.rows) : db.rows[i].remote_allowed = 1

\* the step is an approve call
ApproveStep == Idle /\ last'.op = "approve"

\* C9: remote_allowed changes only through approve.  Every step leaves every
\* existing row as it was, except that an approve(k) that returns true sets
\* remote_allowed = 1 on exactly the rows whose opencode_session_id is k;
\* approve adds no row and leaves the schema alone.  A row of a table
\* without the column has no remote_allowed to change and keeps every
\* column it has.
C9_Frame ==
    [][/\ Len(db'.rows) >= Len(db.rows)
       /\ \A i \in 1..Len(db.rows) :
             IF db.rows[i].remote_allowed = NoColumn
             THEN [db'.rows[i] EXCEPT !.remote_allowed = NoColumn] = db.rows[i]
             ELSE db'.rows[i] =
                    IF ApproveStep /\ last'.result
                       /\ db.rows[i].opencode_session_id = last'.key
                    THEN [db.rows[i] EXCEPT !.remote_allowed = 1]
                    ELSE db.rows[i]
       /\ ApproveStep => [db' EXCEPT !.rows = db.rows] = db
      ]_vars

\* an approve set the flag on the row of its key and left the row of the
\* other key unapproved
C9_Witness ==
    /\ last.op = "approve"
    /\ last.result
    /\ \E i, j \in 1..Len(db.rows) :
          /\ db.rows[i].opencode_session_id = last.key
          /\ db.rows[i].remote_allowed = 1
          /\ db.rows[j].opencode_session_id \in Keys \ {last.key}
          /\ db.rows[j].remote_allowed = 0

\* C10: on an openable, queryable store with the session feature enabled
\* approve(k) returns true whether or not a row has key k, and with no such
\* row it leaves the store unchanged.
C10_ApproveUnknownKey ==
    [][(ApproveStep /\ config.enableSessionStore /\ Queryable)
          => /\ last'.result = TRUE
             /\ Matching(db, last'.key) = {} => db' = db
      ]_vars

\* approve returned true for a key no row carries, in a store that has rows
C10_Witness ==
    /\ last.op = "approve"
    /\ last.result
    /\ Len(db.rows) > 0
    /\ Matching(db, last.key) = {}

\* the last call is a lookup whose query ran: a key was given, the session
\* feature is enabled and the store is openable and queryable
LookupRan ==
    /\ last.op = "lookup"
    /\ Truthy(last.key)
    /\ config.enableSessionStore
    /\ Queryable

\* C11 as claimed: the lookup returns null when the key is absent or empty,
\* the feature is disabled, the store is unreachable or no row has the key,
\* and a record only when a row matches.
C11_Original ==
    last.op = "lookup"
    => (last.outcome.value.isNull
          <=> ~(LookupRan /\ Matching(db, last.key) # {}))

\* C11 as amended: the lookup never raises.  It returns null when the key
\* is absent or empty, the feature is disabled or the store is unreachable.
\* Whenever the query runs it returns a record: threadId = null and
\* remoteAllowed = FALSE when no row has the key, and otherwise the first
\* matching row's thread id (null if empty) and whether its remote_allowed
\* is 1.
C11_LookupNull ==
    last.op = "lookup"
    => last.outcome =
         IF ~LookupRan THEN Returns(NullSession)
         ELSE IF Matching(db, last.key) = {}
         THEN Returns([isNull |-> FALSE, threadId |-> NULL,
                       remoteAllowed |-> FALSE])
         ELSE Returns([isNull |-> FALSE,
                       threadId |-> IF Truthy(FirstRow(last.key).discord_thread_id)
                                    THEN FirstRow(last.key).discord_thread_id
                                    ELSE NULL,
                       remoteAllowed |-> FirstRow(last.key).remote_allowed = 1])

\* a lookup found no row of its key among the rows of another key and
\* returned a record that is not null
C11_Witness ==
    /\ LookupRan
    /\ Len(db.rows) > 0
    /\ Matching(db, last.key) = {}
    /\ ~last.outcome.threw
    /\ ~last.outcome.value.isNull
    /\ last.outcome.value.threadId = NULL

\* the step is a create_thread_for_conversation call reaching register
RegisterStep == Idle /\ last'.op = "register"

\* C12: a successful register adds exactly one row and changes no existing
\* row or schema object.  The new row's id differs from every existing id
\* and is the returned value; discord_thread_id is the thread's id,
\* discord_channel_id its parent id, user_id its owner or 'unknown', state
\* 'idle', agent_type as given, remote_allowed 0 and created_at = updated_at.
C12_RegisterRow ==
    [][(RegisterStep /\ last'.result # NULL)
          => /\ Len(db'.rows) = Len(db.rows) + 1
             /\ SubSeq(db'.rows, 1, Len(db.rows)) = db.rows
             /\ [db' EXCEPT !.rows = db.rows] = db
             /\ LET new == db'.rows[Len(db'.rows)]
                IN  /\ new.id = last'.result
                    /\ \A i \in 1..Len(db.rows) : db.rows[i].id # new.id
                    /\ new.discord_thread_id = last'.thread.id
                    /\ new.discord_channel_id = last'.thread.parentId
                    /\ new.user_id = IF last'.thread.ownerId = NULL
                                     THEN "unknown" ELSE last'.thread.ownerId
                    /\ new.state = "idle"
                    /\ new.agent_type = last'.agentType
                    /\ new.remote_allowed = 0
                    /\ new.created_at = new.updated_at
      ]_vars

\* a register for a thread without owner succeeded next to an existing
\* keyed row, which it left in place
C12_Witness ==
    /\ last.op = "register"
    /\ last.result # NULL
    /\ last.thread.ownerId = NULL
    /\ Len(db.rows) = 2
    /\ db.rows[1].opencode_session_id \in Keys
    /\ db.rows[2].id = last.result
    /\ db.rows[2].user_id = "unknown"

\* C13: register never raises.  When the session feature is disabled or
\* the store cannot be opened or the insert fails it returns null and
\* writes nothing, and create_thread_for_conversation still returns
\* thread_created = true, the created thread's id, session_id = null and
\* session_registered = false.
C13_RegisterNeverRaises ==
    [][RegisterStep
          => /\ ~last'.threw
             /\ (~config.enableSessionStore \/ ~Queryable
                    \/ \E i \in 1..Len(db.rows) : db.rows[i].id = last'.sessionId)
                   => last'.result = NULL
             /\ last'.result = NULL
                   => /\ db' = db
                      /\ last'.reply = [thread_created |-> TRUE,
                                        thread_id |-> last'.thread.id,
                                        session_id |-> NULL,
                                        session_registered |-> FALSE]
      ]_vars

\* with the feature enabled the store could not be opened, and the tool
\* still reported the thread it created, unregistered
C13_Witness ==
    /\ last.op = "register"
    /\ config.enableSessionStore
    /\ ~dbOpenable
    /\ ~last.threw
    /\ last.result = NULL
    /\ last.reply.thread_created
    /\ ~last.reply.session_registered

(* ---------------- properties: the file access guard ---------------- *)

\* a validateFileAccess call has returned
Validated == call.pc = "done"

\* the canonical path says the entry was removed
MarkedDeleted(path) == \E i \in 1..Len(path) : path[i] = DeletedMark

\* prefix without its trailing slashes: its longest head not ending in '/'
Trimmed(prefix) ==
    LET ends == {k \in 0..Len(prefix) : k = 0 \/ prefix[k] # "/"}
    IN  SubSeq(prefix, 1, CHOOSE k \in ends : \A j \in ends : j <= k)

\* path is the directory prefix names, or lies below it
Under(path, prefix) ==
    LET dir == Trimmed(prefix)
    IN  \/ path = dir
        \/ /\ Len(path) > Len(dir)
           /\ \A i \in 1..Len(dir) : path[i] = dir[i]
           /\ path[Len(dir) + 1] = "/"

UnderSome(path, prefixes) ==
    \E i \in 1..Len(prefixes) : Under(path, prefixes[i])

\* the default directories stand in for an absent or empty list
DefaultsApply == Len(call.allowedPrefixes) = 0

\* the directories the call's prefix check is made against
PrefixesInForce ==
    IF DefaultsApply THEN <<ProjectsDir, TmpDir>> ELSE call.allowedPrefixes

\* what the stat checks decide, in their order
StatsVerdict ==
    IF ~call.stats.isFile THEN "NotARegularFile"
    ELSE IF call.stats.nlink > 1 THEN "MultipleHardlinks"
    ELSE IF call.stats.size > MaxBytes THEN "ExceedsLimit"
    ELSE NULL

C15_ReadAfterChecks ==
    /\ call.reads <= 1
    /\ call.reads = 1
          => /\ call.canonical = "path"
             /\ ~MarkedDeleted(call.realPath)
             /\ UnderSome(call.realPath, PrefixesInForce)
             /\ call.statted
             /\ call.stats.isFile
             /\ call.stats.nlink <= 1
             /\ call.stats.size <= MaxBytes
    /\ (Validated /\ call.result.error # NULL)
          => /\ call.reads = 0
             /\ call.result.buffer = NoBuffer

\* a call that got as far as the stat returned the hardlink error and has
\* read nothing
C15_Witness ==
    /\ Validated
    /\ call.statted
    /\ call.result.error = "MultipleHardlinks"
    /\ call.reads = 0

\* C16: a call opens at most one descriptor and holds it until it returns;
\* when it has returned, with an error or with success, the descriptor has
\* been closed exactly once, and when the open failed none was ever held.
C16_DescriptorReleased ==
    /\ call.opens <= 1
    /\ call.fdOpen <=> (call.opens = 1 /\ ~Validated)
    /\ call.closes = IF Validated THEN call.opens ELSE 0
    /\ call.opens = 0 => call.fd = NoFile

\* a call rejected by a stat check has closed its descriptor
C16_Witness ==
    /\ Validated
    /\ call.result.error = "NotARegularFile"
    /\ call.opens = 1
    /\ call.closes = 1
    /\ ~call.fdOpen

\* C17: the content a successful call returns is the content of the file
\* object its descriptor was opened on, which is the one object the
\* canonical-path and stat checks examined, also when the supplied path has
\* meanwhile come to lead elsewhere.
C17_NoCheckThenUseRace ==
    (Validated /\ call.result.error = NULL)
    => /\ call.result.buffer.inode = call.fd
       /\ call.seen = {call.fd}

\* a call succeeded on the file it had opened although the path was
\* re-pointed to the file outside the sandbox before the read
C17_Witness ==
    /\ Validated
    /\ call.result.error = NULL
    /\ names[call.filePath] = "i2"
    /\ call.fd = "i1"
    /\ call.result.buffer.inode = "i1"

LeavesAlone(r, d) == ~r.threw /\ r.db = d

BothIndexes == {IDX_OPENCODE_SESSION_ID, IDX_DISCORD_THREAD_ID}

\* C19: bootstrapSchema and ensureSchema are idempotent.  After either has
\* returned, the store has the sessions table, both indexes and WAL mode
\* (and after ensureSchema the remote_allowed column), and a second call on
\* the same path raises no error and leaves the store, rows included,
\* exactly as the first call left it.
C19_Idempotent ==
    /\ (last.op = "bootstrap" /\ ~last.threw)
          => /\ db.hasTable /\ db.wal /\ db.indexes = BothIndexes
             /\ LeavesAlone(bootstrapSchema(dbOpenable, db), db)
    /\ (last.op = "ensureSchema" /\ ~last.threw)
          => /\ db.hasTable /\ db.wal /\ db.indexes = BothIndexes
             /\ db.hasRemoteAllowed
             /\ LeavesAlone(ensureSchema(dbOpenable, db), db)
             /\ LeavesAlone(bootstrapSchema(dbOpenable, db), db)

\* a bootstrap call on a store that holds rows returned without error and
\* had nothing to change: a second call
C19_Witness ==
    /\ last.op = "bootstrap"
    /\ ~last.threw
    /\ ~last.changed
    /\ Len(db.rows) > 0
    /\ db.indexes = BothIndexes

\* the step is a migrateSchema call on a store that can be opened and has
\* the sessions table
MigrateStep == Idle /\ last'.op = "migrate" /\ dbOpenable /\ db.hasTable

\* C20: migrateSchema on a table that lacks remote_allowed adds that column
\* and nothing else: every row reads remote_allowed = 0 and keeps its other
\* columns, no row is added or removed, indexes and journal mode stay.  On
\* a table that has the column it changes nothing.  A second run changes
\* nothing and raises nothing.
C20_MigrateAddsColumn ==
    [][MigrateStep
          => /\ ~last'.threw
             /\ db'.hasRemoteAllowed
             /\ [db' EXCEPT !.hasRemoteAllowed = db.hasRemoteAllowed,
                            !.rows = db.rows] = db
             /\ Len(db'.rows) = Len(db.rows)
             /\ \A i \in 1..Len(db.rows) :
                   db'.rows[i] =
                      IF db.hasRemoteAllowed THEN db.rows[i]
                      ELSE [db.rows[i] EXCEPT !.remote_allowed = 0]
             /\ db.hasRemoteAllowed => db' = db
             /\ LeavesAlone(migrateSchema(dbOpenable', db'), db')
      ]_vars

\* a migration gave the rows of a table without the column the value 0
C20_Witness ==
    /\ last.op = "migrate"
    /\ ~last.threw
    /\ last.changed
    /\ Len(db.rows) = MaxRows
    /\ \A i \in 1..Len(db.rows) : db.rows[i].remote_allowed = 0

\* the step is an ensureSchema call that returned
EnsureStep == Idle /\ last'.op = "ensureSchema" /\ ~last'.threw

\* C21: ensureSchema returns on every store that can be opened, whether the
\* file was absent, held the table without remote_allowed or held the full
\* schema.  When it has returned the sessions table exists with the
\* remote_allowed column, both indexes exist, and every row that was there
\* is still there in its place with the values it had, a row of a table
\* that lacked the column reading remote_allowed = 0.
C21_EnsureSchemaConverges ==
    [][/\ (Idle /\ last'.op = "ensureSchema" /\ dbOpenable) => ~last'.threw
       /\ EnsureStep
             => /\ db'.hasTable
                /\ db'.hasRemoteAllowed
                /\ db'.indexes = BothIndexes
                /\ Len(db'.rows) = Len(db.rows)
                /\ \A i \in 1..Len(db.rows) :
                      db'.rows[i] =
                         IF db.rows[i].remote_allowed = NoColumn
                         THEN [db.rows[i] EXCEPT !.remote_allowed = 0]
                         ELSE db.rows[i]
      ]_vars

\* ensureSchema returned on a store that held rows and had something to add
C21_Witness ==
    /\ last.op = "ensureSchema"
    /\ ~last.threw
    /\ last.changed
    /\ Len(db.rows) > 0
    /\ db.hasRemoteAllowed
    /\ db.indexes = BothIndexes

\* the step is a migrateSchema call on a store that can be opened
MigrateOpenable == Idle /\ last'.op = "migrate" /\ dbOpenable

\* C22 as stated: on every store that can be opened, whatever tables it
\* holds, migrateSchema returns without raising and changes nothing except
\* possibly adding remote_allowed.
C22_Original ==
    [][MigrateOpenable
          => /\ ~last'.threw
             /\ db' \in {db, AddRemoteAllowed(db, 0)}
      ]_vars

\* C22: on every store that can be opened and holds a sessions table,
\* whether or not bootstrapSchema ran on it before, migrateSchema returns
\* without raising and changes nothing except adding remote_allowed where
\* it is missing.  On a store without a sessions table it raises and
\* changes nothing.
C22_MigrateSafeOnTable ==
    [][MigrateOpenable
          => IF db.hasTable
             THEN /\ ~last'.threw
                  /\ db' = IF db.hasRemoteAllowed THEN db
                           ELSE AddRemoteAllowed(db, 0)
             ELSE /\ last'.threw
                  /\ db' = db
      ]_vars

\* migrateSchema returned on a table with rows that bootstrapSchema never
\* touched: no index, no WAL
C22_Witness ==
    /\ last.op = "migrate"
    /\ ~last.threw
    /\ db.hasTable
    /\ db.indexes = {}
    /\ ~db.wal
    /\ Len(db.rows) > 0

(* ---------------- properties: plugin start ---------------- *)

StoreCalls == {"lookup", "resolve", "approve", "register"}

\* C23: with the session store enabled the tools are handed out only after
\* ensureSchema has completed: whenever the plugin serves its tools the
\* sessions table, its remote_allowed column and both indexes exist; when
\* ensureSchema raised, the entry point raised and no tool was handed out,
\* so no call of the store has run; and a lookup, register or approve runs
\* only in a plugin that serves its tools.
C23_SchemaBeforeTools ==
    /\ (phase = "ready" /\ config.enableSessionStore)
          => /\ db.hasTable
             /\ db.hasRemoteAllowed
             /\ db.indexes = BothIndexes
    /\ phase = "failed" => (config.enableSessionStore /\ last = NoCall)
    /\ last.op \in StoreCalls => phase = "ready"

\* a thread was registered in a store whose table the entry point created
C23_Witness ==
    /\ phase = "ready"
    /\ config.enableSessionStore
    /\ last.op = "register"
    /\ Truthy(last.result)
    /\ db.wal
    /\ Len(db.rows) = 1

\* C29: rows created by registerThreadSession cannot be reached by key.  In
\* a store that was empty at start and is written by this plugin alone,
\* after any sequence of register, approve, lookup and resolve calls every
\* row has opencode_session_id NULL and remote_allowed = 0, every lookup by
\* a non-empty key finds no thread id, and resolveChannelId never returns
\* fromSession = true.
C29_RegisteredRowsUnreachable ==
    /\ \A i \in 1..Len(db.rows) :
          /\ db.rows[i].opencode_session_id = NULL
          /\ db.rows[i].remote_allowed = 0
    /\ (last.op = "lookup" /\ Truthy(last.key))
          => /\ ~last.outcome.threw
             /\ ~Truthy(last.outcome.value.threadId)
    /\ (last.op = "resolve" /\ ~last.outcome.threw)
          => ~last.outcome.value.fromSession

\* a resolve call consulted a store full of registered rows for a key whose
\* approval had been reported as done, and fell back
C29_Witness ==
    /\ last.op = "resolve"
    /\ last.opens = 1
    /\ last.key \in Keys
    /\ approveHist[last.key] = "unbound"
    /\ Len(db.rows) = MaxRows
    /\ ~last.outcome.threw
    /\ ~last.outcome.value.fromSession

(* ---------------- properties: calls in flight at once ---------------- *)

C25_ValidateBeforeSend ==
    /\ send.pc = "validating"
          => (send.resolves = 0 /\ send.lookups = 0 /\ send.sent = <<>>)
    /\ (send.pc \in {"returned", "resolving", "sending"}
           /\ send.validation.error # NULL)
          => /\ send.pc = "returned"
             /\ send.result = send.validation.error
             /\ send.resolves = 0
             /\ send.lookups = 0
             /\ send.sent = <<>>
    /\ \A i \in 1..Len(send.sent) :
          /\ send.validation.error = NULL
          /\ send.validation.buffer # NoBuffer
          /\ send.validation.realPath # <<>>
          /\ send.sent[i].attachment = send.validation.buffer
          /\ send.sent[i].name = basename(send.validation.realPath)

\* a file went out to the thread of the session after a store lookup
C25_Witness ==
    /\ send.pc = "returned"
    /\ Len(send.sent) = 1
    /\ send.lookups = 1
    /\ send.sent[1].channel = "t1"
    /\ send.sent[1].attachment.bytes > 0

(* ---------------- properties: run_project_command ---------------- *)

\* C26: run_project_command executes a command only if the command is a
\* member of config.allowedCommands.
C26_OnlyAllowedCommands ==
    \A i \in 1..Len(cmd.executed) :
        cmd.executed[i].command \in config.allowedCommands

(* ---------------- properties: send_discord_message ---------------- *)

\* the call went past the channel resolution
Resolved1 == msg.pc = "sending" \/ (msg.pc = "returned" /\ msg.target # NULL)

\* C27: send_discord_message resolves the channel once.  Content of at most
\* CHUNK_LIMIT characters is sent as one message, unchanged; longer content
\* goes out as chunks of at most CHUNK_LIMIT characters each, one at a time
\* and in order (a chunk is handed to Discord only when the chunk before
\* it has been stored), all to the resolved channel; and the reply lists
\* the ids of the messages in the order they were sent.
C27_ChunkedSend ==
    /\ msg.resolves <= 1
    /\ Resolved1
          => /\ msg.resolves = 1
             /\ Len(msg.chunks) >= 1
             /\ Len(msg.content) <= CHUNK_LIMIT => msg.chunks = <<msg.content>>
             /\ \A i \in 1..Len(msg.chunks) : Len(msg.chunks[i]) <= CHUNK_LIMIT
    /\ Cardinality(msg.inflight) <= 1
    /\ \A i \in msg.inflight : Len(msg.delivered) = i - 1
    /\ Len(msg.delivered) <= Len(msg.chunks)
    /\ \A i \in 1..Len(msg.delivered) :
          /\ msg.delivered[i].channel = msg.target
          /\ msg.delivered[i].content = msg.chunks[i]
          /\ msg.messageIds[i] = msg.delivered[i].id
    /\ (msg.pc = "returned" /\ ~msg.result.threw)
          => /\ Len(msg.delivered) = Len(msg.chunks)
             /\ msg.result.value.count = Len(msg.chunks)
             /\ msg.result.value.ids =
                   [i \in 1..Len(msg.chunks) |-> msg.delivered[i].id]

\* a text went out in three chunks to the thread of the session
C27_Witness ==
    /\ msg.pc = "returned"
    /\ Len(msg.delivered) = 3
    /\ msg.target = "t1"
    /\ ~msg.result.threw
    /\ msg.result.value.ids = <<1, 2, 3>>

(* ---------------- properties: interactive waits ---------------- *)

\* the wait was started: the clock of awaitMessageComponent is set
Began == wait.timeout > 0
\* the collector took a click
Taken == wait.accepted.at >= 0

\* C28: an interactive wait resolves to exactly one outcome and fails
\* closed.  A call has no outcome while it runs and one when it has
\* returned.  Once its wait has started request_approval returns one of
\* approved, denied and denied: timeout; it returns approved only for a
\* click on the approve button by a user that is no bot, made before the
\* time was up, and denied: timeout when no click was taken.  Once its
\* wait has started await_button_click returns the button that was
\* clicked, or else the timeout result.
C28_OneOutcomeFailClosed ==
    /\ Len(wait.outcomes) = (IF wait.pc = "returned" THEN 1 ELSE 0)
    /\ (wait.pc = "returned" /\ wait.name = "request_approval")
          => /\ Began => wait.outcomes[1] \in {"approved", "denied", "denied: timeout"}
             /\ wait.outcomes[1] = "approved"
                   => /\ Taken
                      /\ wait.accepted.customId = "approve"
                      /\ ~wait.accepted.user.bot
                      /\ wait.accepted.at < wait.timeout
             /\ (Began /\ ~Taken)
                   => wait.outcomes[1] = "denied: timeout"
    /\ (wait.pc = "returned" /\ wait.name = "await_button_click" /\ Began)
          => IF Taken
             THEN /\ wait.outcomes[1].error = NULL
                  /\ wait.outcomes[1].button_id = wait.accepted.customId
                  /\ wait.outcomes[1].user_id = wait.accepted.user.id
                  /\ wait.accepted.at < wait.timeout
             ELSE wait.outcomes[1] = TimeoutResult("await_button_click")

\* an approval was given by a person after a click of the bot was turned
\* away and a tick of the clock had passed
C28_Witness ==
    /\ wait.pc = "returned"
    /\ wait.name = "request_approval"
    /\ wait.outcomes = <<"approved">>
    /\ wait.refused > 0
    /\ wait.accepted.at > 0

(* ---------------- properties: getClient ---------------- *)

\* C30: under every interleaving of getClient calls made while no ready
\* client exists, at most one client is constructed and logged in, and
\* every call returns that client, and only after its login has completed.
C30_SingleClient ==
    /\ Len(client.state) <= 1
    /\ \A p \in Procs :
          client.proc[p].pc = "done"
             => (client.proc[p].returned = 1 /\ client.proc[p].loggedIn)

\* C31: the buffer of a successful validateFileAccess never has more than
\* maxBytes bytes, also when another process appends to the file or rewrites
\* it between the size check and the read.
C31_BufferWithinLimit ==
    (Validated /\ call.result.error = NULL)
    => call.result.buffer.bytes <= MaxBytes

\* the confirmation a call of a wrapped tool lacks: the tool is not in the
\* allowed set and confirmed_by_user is not true
Unconfirmed ==
    /\ gate.now.name \notin gate.allowedTools
    /\ gate.now.confirmed_by_user # "true"

\* C32: a wrapped tool that is not in the allowed-tools set and is called
\* without confirmed_by_user = true returns the confirmation error, and its
\* underlying operation is never invoked: no store read or write, no channel
\* resolution, no call of the chat platform.  The underlying operation is
\* invoked, once, exactly when the name is in the set or confirmed_by_user
\* is true.
C32_ConfirmationGate ==
    gate.now.pc # "idle"
    => /\ gate.now.invoked = (IF Unconfirmed THEN 0 ELSE 1)
       /\ Unconfirmed
             => /\ gate.now.pc = "returned"
                /\ ~gate.now.result.raised
                /\ gate.now.result.text = CONFIRMATION_ERROR
                /\ gate.now.opens = 0
                /\ gate.now.resolves = 0
                /\ gate.now.platform = 0
                /\ db = gate.before

\* a tool that is not listed sent a message when it was called with
\* confirmed_by_user = true, and was turned away when it was called again
\* with confirmed_by_user = false
C32_Witness ==
    /\ gate.now.pc = "returned"
    /\ gate.made = 2
    /\ gate.sent = <<"c0">>
    /\ gate.now.name = "send_discord_message"
    /\ gate.allowedTools = {"create_thread_for_conversation"}
    /\ gate.now.confirmed_by_user = "false"
    /\ gate.now.invoked = 0
    /\ gate.now.result.text = CONFIRMATION_ERROR

\* C33: a call of a wrapped tool never raises; when the underlying
\* operation throws an Error, the resolver's 'not approved' and 'could not
\* resolve channel' among them, the caller gets its message, and when it
\* throws any other value the caller gets 'Error: Tool execution failed.'.
C33_NeverRaises ==
    /\ ~gate.now.result.raised
    /\ (gate.now.pc = "returned" /\ gate.now.thrown.threw)
          => gate.now.result.text = IF gate.now.thrown.isError
                                    THEN gate.now.thrown.message
                                    ELSE TOOL_FAILED

\* a send for a session that is bound but not approved came back as the
\* text of the resolver's error
C33_Witness ==
    /\ gate.now.pc = "returned"
    /\ gate.now.name = "send_discord_message"
    /\ gate.now.thrown = [threw |-> TRUE, isError |-> TRUE,
                          message |-> "NotApproved"]
    /\ ~gate.now.result.raised
    /\ gate.now.result.text = "NotApproved"

\* the rows registered for thread t
RowsFor(t) == {i \in 1..Len(db.rows) : db.rows[i].discord_thread_id = t}

\* C37: with the session store enabled and writable, once a call of
\* create_thread_for_conversation is over every thread created on the chat
\* platform has exactly one session row, and no row names a thread that was
\* not created.
C37_ThreadHasRow ==
    (/\ config.enableSessionStore
     /\ dbOpenable
     /\ gate.now.pc \in {"idle", "returned"})
    => /\ \A t \in gate.threads : Cardinality(RowsFor(t)) = 1
       /\ \A i \in 1..Len(db.rows) :
             db.rows[i].discord_thread_id \in gate.threads \cup {"t1"}

\* a step in which resolveChannelId is called and returns or throws
ResolveStep == last.op = "none" /\ last'.op = "resolve"

NonWhitespace(text) == SelectSeq(text, LAMBDA ch : ch \notin {" ", "\n"})

\* the chunks read one after the other
RECURSIVE Joined(_)
Joined(chunks) ==
    IF chunks = <<>> THEN <<>> ELSE Head(chunks) \o Joined(Tail(chunks))

\* C35: splitMessageContent terminates for every text and every maxLength
\* of at least 1 (every round of the loop consumes at least one character),
\* returns no empty chunk for a non-empty text and no chunk longer than
\* maxLength, and loses only whitespace: the characters of the chunks that
\* are no whitespace, read in order, are those of the text.
C35_SplitSound ==
    /\ split.rounds + Len(split.remaining) <= Len(split.text)
    /\ \A i \in 1..Len(split.chunks) :
          /\ Len(split.chunks[i]) <= split.maxLength
          /\ split.text # <<>> => split.chunks[i] # <<>>
    /\ NonWhitespace(Joined(split.chunks) \o split.remaining)
          = NonWhitespace(split.text)
    /\ split.pc = "returned"
          => /\ split.remaining = <<>>
             /\ split.text # <<>> => split.chunks # <<>>
             /\ split.chunks = splitMessageContent(split.text, split.maxLength)

\* a text of seven characters came back as three chunks, the line feed and
\* the space between them dropped
C35_Witness ==
    /\ split.pc = "returned"
    /\ split.maxLength = 3
    /\ split.text = <<"a", "b", "\n", "a", "b", " ", "a">>
    /\ split.chunks = << <<"a", "b">>, <<"a", "b">>, <<"a">> >>

\* the users the arguments of an await_button_click call name: the ids
\* listed, blank ones aside, or the session user of the context when the
\* list is absent or names nobody
NamedUsers ==
    LET listed == IF wait.allowed_user_ids = undefined THEN {}
                  ELSE {wait.allowed_user_ids[i] :
                            i \in 1..Len(wait.allowed_user_ids)} \ {""}
    IN  IF listed # {} THEN listed
        ELSE IF Truthy(wait.sessionUserId) THEN {wait.sessionUserId}
        ELSE {}

\* C36: await_button_click accepts a click only from a user listed in
\* allowed_user_ids and, when the list is absent or empty, only from the
\* session user of the calling context; a click by anybody else never
\* resolves the wait.
C36_OnlyNamedUsersClick ==
    (wait.name = "await_button_click" /\ Taken)
    => wait.accepted.user.id \in NamedUsers

\* C38: validateFileAccess returns the 'File was deleted' error exactly
\* when the file it opened was there at the open and had been removed by
\* the time its canonical path was taken; a file that still exists at its
\* canonical path is never rejected as deleted, whatever its name.
C38_DeletedExactly ==
    (Validated /\ call.canonical # "none")
    => (call.result.error = "FileWasDeleted"
            <=> (call.liveAtOpen /\ call.removed))

====
